---- MODULE Spec2Model ----
(***************************************************************************)
(* A model of grav1synth's AV1 OBU parser / rewriter (src/src/parser.rs   *)
(* and src/src/parser/*.rs) and of its grain timeline aggregator           *)
(* (src/src/main.rs).                                                      *)
(*                                                                         *)
(* Bytes are naturals 0..255, byte strings are sequences of bytes, and the *)
(* bit readers read those bytes most significant bit first, as nom's       *)
(* bits::complete::take does.                                              *)
(*                                                                         *)
(* A long function of the source is written as a chain of operators f,     *)
(* f_2, f_3, ...: each takes the function up at the local definition its   *)
(* comment names and is handed the definitions made before it.             *)
(***************************************************************************)
EXTENDS Integers, Sequences, FiniteSets, TLC

(***************************************************************************)
(* Bounds of the model.                                                    *)
(***************************************************************************)
\* number of film grain headers the aggregator is fed
MaxHeaders == 5
\* number of values the LEB128 round trip walks through around each boundary
LebSpread == 12
\* number of packets of the video stream
MaxPackets == 2

\* the longest byte string leb128 is run on
MaxLebBytes == 9

\* the headers of the longer streams the aggregator is run on
ScenarioFrames == 30

(***************************************************************************)
(* Program constants.                                                      *)
(***************************************************************************)
TIMESTAMP_BASE_UNIT == 10000000

(***************************************************************************)
(* Arithmetic helpers.                                                     *)
(***************************************************************************)
Pow2(n) == 2 ^ n

Min(a, b) == IF a < b THEN a ELSE b

Max(a, b) == IF a > b THEN a ELSE b

\* f64::ceil of the exact quotient a / b, for a >= 0 and b > 0
CeilDiv(a, b) == (a + b - 1) \div b

\* s[from..] of a Rust slice, 0-based; the caller checks from <= Len(s)
SliceFrom(s, from) == SubSeq(s, from + 1, Len(s))

\* s[..to] of a Rust slice, 0-based; the caller checks to <= Len(s)
SliceTo(s, to) == SubSeq(s, 1, to)

(***************************************************************************)
(* util.rs: LEB128.                                                        *)
(***************************************************************************)
\* The loop of leb128: i is the loop counter, value and leb128_bytes the
\* accumulators. take(1) fails on an empty input; the loop leaves after the
\* first byte with a clear continuation bit, or after 8 bytes. A byte whose
\* low 7 bits are 0 adds 0 whatever its shift: the integers of the model end
\* at 2^31 and 1 << (i * 7) lies beyond them from i = 5 on.
RECURSIVE leb128_loop(_, _, _, _)
leb128_loop(input, i, value, leb128_bytes) ==
    IF i >= 8
    THEN [ok |-> TRUE, value |-> value, bytes_read |-> leb128_bytes, rest |-> input]
    ELSE IF Len(input) = 0
    THEN [ok |-> FALSE, value |-> 0, bytes_read |-> 0, rest |-> input]
    ELSE LET leb128_byte == Head(input)
             v == IF leb128_byte % 128 = 0 THEN value
                  ELSE value + (leb128_byte % 128) * Pow2(i * 7)
         IN IF leb128_byte < 128
            THEN [ok |-> TRUE, value |-> v, bytes_read |-> leb128_bytes + 1,
                  rest |-> Tail(input)]
            ELSE leb128_loop(Tail(input), i + 1, v, leb128_bytes + 1)

leb128(input) == leb128_loop(input, 0, 0, 0)

\* leb128_write with the continuation bit set on every byte but never cleared
\* on the last one
RECURSIVE leb128_write_allcont(_)
leb128_write_allcont(value) ==
    LET byte == value % 128
        rest == value \div 128
    IN IF rest # 0
       THEN <<byte + 128>> \o leb128_write_allcont(rest)
       ELSE <<byte + 128>>

\* leb128_write: 7 bits per byte, least significant group first, the
\* continuation bit set on every byte but the last; at least one byte.
RECURSIVE leb128_write(_)
leb128_write(value) ==
    LET byte == value % 128
        rest == value \div 128
    IN IF rest # 0
       THEN <<byte + 128>> \o leb128_write(rest)
       ELSE <<byte>>

(***************************************************************************)
(* grain.rs: film grain headers.                                           *)
(***************************************************************************)
\* A FilmGrainParams value. The scaling points and AR coefficients are kept
\* as sequences; every field of the struct is present.
BaseGrainParams ==
    [grain_seed |-> 1,
     scaling_points_y |-> <<>>, scaling_points_cb |-> <<>>, scaling_points_cr |-> <<>>,
     scaling_shift |-> 8, ar_coeff_lag |-> 0,
     ar_coeffs_y |-> <<>>, ar_coeffs_cb |-> <<0>>, ar_coeffs_cr |-> <<0>>,
     ar_coeff_shift |-> 6,
     cb_mult |-> 0, cb_luma_mult |-> 0, cb_offset |-> 0,
     cr_mult |-> 0, cr_luma_mult |-> 0, cr_offset |-> 0,
     chroma_scaling_from_luma |-> FALSE, grain_scale_shift |-> 0,
     overlap_flag |-> FALSE, clip_to_restricted_range |-> FALSE]

\* an equality that takes grain_seed into account
FilmGrainParamsSame(a, b) == a = b

\* impl PartialEq for FilmGrainParams: every field but grain_seed
FilmGrainParamsEq(a, b) ==
    /\ a.scaling_points_y = b.scaling_points_y
    /\ a.scaling_points_cb = b.scaling_points_cb
    /\ a.scaling_points_cr = b.scaling_points_cr
    /\ a.scaling_shift = b.scaling_shift
    /\ a.ar_coeff_lag = b.ar_coeff_lag
    /\ a.ar_coeffs_y = b.ar_coeffs_y
    /\ a.ar_coeffs_cb = b.ar_coeffs_cb
    /\ a.ar_coeffs_cr = b.ar_coeffs_cr
    /\ a.ar_coeff_shift = b.ar_coeff_shift
    /\ a.cb_mult = b.cb_mult
    /\ a.cb_luma_mult = b.cb_luma_mult
    /\ a.cb_offset = b.cb_offset
    /\ a.cr_mult = b.cr_mult
    /\ a.cr_luma_mult = b.cr_luma_mult
    /\ a.cr_offset = b.cr_offset
    /\ a.chroma_scaling_from_luma = b.chroma_scaling_from_luma
    /\ a.grain_scale_shift = b.grain_scale_shift
    /\ a.overlap_flag = b.overlap_flag
    /\ a.clip_to_restricted_range = b.clip_to_restricted_range

\* enum FilmGrainHeader
Disable == [kind |-> "Disable"]

CopyRefFrame == [kind |-> "CopyRefFrame"]

UpdateGrain(p) == [kind |-> "UpdateGrain", params |-> p]

(***************************************************************************)
(* The bit reader: nom's bits::complete over a byte slice b. A reader      *)
(* value is [st, pos, val]: st is "ok", "err" (a nom error, which the `?`   *)
(* operator returns to the caller) or "panic" (the thread panics); pos is  *)
(* the number of bits consumed so far; val the value last read.            *)
(***************************************************************************)
BitAt(b, p) == (b[(p \div 8) + 1] \div Pow2(7 - (p % 8))) % 2

\* the n bits from bit position p on, most significant first
RECURSIVE BitsValue(_, _, _)
BitsValue(b, p, n) ==
    IF n = 0 THEN 0 ELSE 2 * BitsValue(b, p, n - 1) + BitAt(b, p + n - 1)

NewReader == [st |-> "ok", pos |-> 0, val |-> 0]

\* the reader r with the value v, unless it has failed
WithVal(r, v) == IF r.st = "ok" THEN [st |-> "ok", pos |-> r.pos, val |-> v] ELSE r

\* the reader r once it has failed with st: no value is read
Failed(r, st) == [st |-> st, pos |-> r.pos, val |-> 0]

\* bit_parsers::take(n): Eof when fewer than n bits are left
take(b, r, n) ==
    IF r.st # "ok" THEN r
    ELSE IF 8 * Len(b) - r.pos < n THEN Failed(r, "err")
    ELSE [st |-> "ok", pos |-> r.pos + n, val |-> BitsValue(b, r.pos, n)]

\* bit_parsers::take(n) of a field whose value is thrown away (n may be 32
\* or more, wider than the integers of the model checker)
skip(b, r, n) ==
    IF r.st # "ok" THEN r
    ELSE IF 8 * Len(b) - r.pos < n THEN Failed(r, "err")
    ELSE [st |-> "ok", pos |-> r.pos + n, val |-> 0]

\* `if c { take(n) } else { (input, d) }`
take_if(b, r, c, n, d) ==
    IF r.st # "ok" THEN r
    ELSE IF c THEN take(b, r, n) ELSE WithVal(r, d)

\* take_zero_bits: bit_parsers::tag(0, bits)
take_zero_bits(b, r, bits) ==
    LET t == take(b, r, bits)
    IN IF t.st = "ok" /\ t.val # 0 THEN Failed(r, "err") ELSE t

\* statements run in order: the readers rs have their outcomes, whichever
\* they are, one after the other and before the statements after them,
\* `rest`, are run
Sequenced(rs, rest) ==
    IF \A i \in DOMAIN rs : rs[i].st \in {"ok", "err", "panic"} THEN rest ELSE rs

\* a panic at this point of the parse (unwrap, index, assert)
panic_if(r, c) == IF r.st = "ok" /\ c THEN Failed(r, "panic") ELSE r

\* bits(): the bytes consumed, the bit position rounded up to a whole byte
BytesConsumed(pos) == (pos + 7) \div 8

\* uvlc's first loop: count the zero bits before the first one bit
RECURSIVE uvlc_zeros(_, _, _)
uvlc_zeros(b, r, leading_zeros) ==
    LET t == take(b, r, 1)
    IN IF t.st # "ok" THEN t
       ELSE IF t.val > 0 THEN WithVal(t, leading_zeros)
       ELSE uvlc_zeros(b, t, leading_zeros + 1)

\* uvlc: the value is thrown away by its only caller; the bits are consumed
uvlc(b, r) ==
    LET z == uvlc_zeros(b, r, 0)
    IN IF z.st # "ok" THEN z
       ELSE IF z.val >= 32 THEN WithVal(z, 0)
       ELSE skip(b, z, z.val)

\* floor_log2
RECURSIVE floor_log2_loop(_, _)
floor_log2_loop(x, s) == IF x = 0 THEN s - 1 ELSE floor_log2_loop(x \div 2, s + 1)

floor_log2(x) == floor_log2_loop(x, 0)

\* ns(n): the non-symmetric code
ns(b, r, n) ==
    LET w == floor_log2(n) + 1
        m == Pow2(w) - n
        v == take(b, r, w - 1)
        e == take(b, v, 1)
    IN IF v.st # "ok" THEN v
       ELSE IF v.val < m THEN v
       ELSE IF e.st # "ok" THEN e
       ELSE WithVal(e, 2 * v.val - m + e.val)

\* su(n): n-bit two's complement
su(b, r, n) ==
    LET t == take(b, r, n)
        sign_mask == Pow2(n - 1)
    IN IF t.st # "ok" THEN t
       ELSE IF (t.val \div sign_mask) % 2 = 1 THEN WithVal(t, t.val - 2 * sign_mask)
       ELSE t

(***************************************************************************)
(* sequence.rs: the sequence header. Option<T> values are sequences of     *)
(* length at most one: <<>> is None and <<x>> is Some(x).                  *)
(***************************************************************************)
SELECT_SCREEN_CONTENT_TOOLS == 2

SELECT_INTEGER_MV == 2

\* the discriminants ColorPrimaries::try_from accepts
ColorPrimariesTags == {1, 2, 4, 5, 6, 7, 8, 9, 10, 11, 12, 22}

\* the discriminants TransferCharacteristics::try_from accepts
TransferCharacteristicsTags == 0 .. 18

\* the discriminants MatrixCoefficients::try_from accepts
MatrixCoefficientsTags == 0 .. 14

\* timing_info; val is equal_picture_interval as 0 or 1
timing_info(b, r) ==
    LET r1 == skip(b, r, 32)
        r2 == skip(b, r1, 32)
        r3 == take(b, r2, 1)
    IN IF r3.st # "ok" THEN r3
       ELSE IF r3.val > 0
       THEN LET u == uvlc(b, r3) IN IF u.st # "ok" THEN u ELSE WithVal(u, 1)
       ELSE r3

\* decoder_model_info; val is the DecoderModelInfo
decoder_model_info(b, r) ==
    LET r1 == take(b, r, 5)
        r2 == skip(b, r1, 32)
        r3 == take(b, r2, 5)
        r4 == take(b, r3, 5)
    IN IF r4.st # "ok" THEN r4
       ELSE WithVal(r4, [buffer_delay_length_minus_1 |-> r1.val,
                 buffer_removal_time_length_minus_1 |-> r3.val,
                 frame_presentation_time_length_minus_1 |-> r4.val])

operating_parameters_info(b, r, buffer_delay_length) ==
    LET r1 == skip(b, r, buffer_delay_length)
        r2 == skip(b, r1, buffer_delay_length)
    IN take(b, r2, 1)

\* the loop over the operating points of parse_sequence_header; i counts the
\* points still to read; val is [present, idc], the two ArrayVecs
RECURSIVE operating_points(_, _, _, _, _, _, _)
operating_points(b, r, i, decoder_model_info_opt, initial_display_delay_present_flag, decoder_model_present_for_op, operating_point_idc) ==
    IF r.st # "ok" THEN r
    ELSE IF i = 0
    THEN WithVal(r, [present |-> decoder_model_present_for_op,
                            idc |-> operating_point_idc])
    ELSE LET idc == take(b, r, 12)
             seq_level_idx == take(b, idc, 5)
             seq_tier == take_if(b, seq_level_idx, seq_level_idx.val > 7, 1, 0)
             flag == take_if(b, seq_tier, decoder_model_info_opt # <<>>, 1, 0)
             opi == IF flag.st = "ok" /\ decoder_model_info_opt # <<>> /\ flag.val > 0
                    THEN operating_parameters_info(b, flag,
                             decoder_model_info_opt[1].buffer_delay_length_minus_1 + 1)
                    ELSE flag
             cur_present == decoder_model_info_opt # <<>> /\ flag.val > 0
             iddp == take_if(b, opi, initial_display_delay_present_flag, 1, 0)
             idd == take_if(b, iddp, initial_display_delay_present_flag /\ iddp.val > 0,
                            4, 0)
         IN operating_points(b, idd, i - 1, decoder_model_info_opt,
                             initial_display_delay_present_flag,
                             Append(decoder_model_present_for_op, cur_present),
                             Append(operating_point_idc, idc.val))

\* the ColorConfig struct color_config returns
ColorConfig(cp, tc, mc, range, planes, sep, ssx, ssy) ==
    [color_primaries |-> cp, transfer_characteristics |-> tc,
     matrix_coefficients |-> mc, color_range |-> range,
     num_planes |-> planes, separate_uv_delta_q |-> sep,
     subsampling |-> <<ssx, ssy>>]

\* color_config, concluded
color_config_3(b, r, seq_profile, monochrome, num_planes, cp, tc, mc, tags, mono_range, color_range, ss_x_r, ss_y_r, suv) ==
    IF tags.st # "ok" THEN tags
    ELSE IF monochrome
    THEN (IF mono_range.st # "ok" THEN mono_range
          ELSE WithVal(mono_range, ColorConfig(cp.val, tc.val, mc.val, mono_range.val,
                                               num_planes, FALSE, 1, 1)))
    ELSE IF suv.st # "ok" THEN suv
    ELSE WithVal(suv, ColorConfig(cp.val, tc.val, mc.val, color_range.val, num_planes,
                                  suv.val > 0, ss_x_r.val, ss_y_r.val))

\* color_config, continued from color_range
color_config_2(b, r, seq_profile, bit_depth, monochrome, num_planes, cp, tc, mc, tags, srgb, mono_range) ==
        \* otherwise
    LET color_range == take_if(b, tags, ~srgb, 1, 1)
        read_ss == ~srgb /\ seq_profile \notin {0, 1} /\ bit_depth = 12
        ss_x_r == take_if(b, color_range, read_ss, 1,
                          IF srgb THEN 0 ELSE IF seq_profile = 0 THEN 1
                          ELSE IF seq_profile = 1 THEN 0 ELSE 1)
        ss_y_r == take_if(b, ss_x_r, read_ss /\ ss_x_r.val > 0, 1,
                          IF srgb THEN 0 ELSE IF seq_profile = 0 THEN 1 ELSE 0)
        csp == take_if(b, ss_y_r, ~srgb /\ ss_x_r.val > 0 /\ ss_y_r.val > 0, 2, 0)
        suv == take(b, csp, 1)
    IN Sequenced(<<ss_y_r, suv>>,
                 color_config_3(b, r, seq_profile, monochrome, num_planes, cp, tc, mc,
                                tags, mono_range, color_range, ss_x_r, ss_y_r, suv))

\* color_config; val is the ColorConfig. The three try_from(..).unwrap()
\* calls panic on a tag outside the enum.
color_config(b, r, seq_profile) ==
    LET high_bitdepth == take(b, r, 1)
        twelve_bit == take_if(b, high_bitdepth, seq_profile = 2 /\ high_bitdepth.val > 0, 1, 0)
        bit_depth == IF seq_profile = 2 /\ high_bitdepth.val > 0
                     THEN (IF twelve_bit.val > 0 THEN 12 ELSE 10)
                     ELSE (IF high_bitdepth.val > 0 THEN 10 ELSE 8)
        mono == take_if(b, twelve_bit, seq_profile # 1, 1, 0)
        monochrome == mono.val > 0
        num_planes == IF monochrome THEN 1 ELSE 3
        cdp == take(b, mono, 1)
        present == cdp.val > 0
        cp == take_if(b, cdp, present, 8, 2)
        tc == take_if(b, cp, present, 8, 2)
        mc == take_if(b, tc, present, 8, 2)
        tags == panic_if(mc, \/ cp.val \notin ColorPrimariesTags
                             \/ tc.val \notin TransferCharacteristicsTags
                             \/ mc.val \notin MatrixCoefficientsTags)
        srgb == cp.val = 1 /\ tc.val = 13 /\ mc.val = 0
        \* monochrome: color_range, then return
        mono_range == take(b, tags, 1)
    IN Sequenced(<<mono, tc, mono_range>>,
                 color_config_2(b, r, seq_profile, bit_depth, monochrome, num_planes, cp,
                                tc, mc, tags, srgb, mono_range))

\* choose_operating_point
choose_operating_point == 0

\* bit::BitIndex::set_bit on a u8: bit 0 is the least significant bit
set_bit(byte, pos, val) ==
    LET old == (byte \div Pow2(pos)) % 2
    IN byte - old * Pow2(pos) + (IF val THEN Pow2(pos) ELSE 0)

\* parse_sequence_header, concluded
parse_sequence_header_8(write, incoming_is_some, self_packet_out, input, reduced, decoder_model_info_opt, timing_info_opt, cnt, operating_point_idc, decoder_model_present_for_op, fwb, fhb, mfw, mfh, frame_id_numbers_present, dfil, afil, use_128x128_superblock, enable_warped_motion, order_hints, enable_ref_frame_mvs, seq_force_sct, seq_force_imv, ohb, enable_superres, enable_cdef, enable_restoration, cc, index_panics, copy, fin) ==
    [st |-> fin.st,
     consumed |-> BytesConsumed(fin.pos),
     flag_pos |-> cc.pos,
     packet_out |-> IF write /\ cc.st = "ok" /\ ~index_panics
                    THEN self_packet_out \o copy ELSE self_packet_out,
     header |->
         IF fin.st # "ok" THEN <<>>
         ELSE <<[reduced_still_picture_header |-> reduced,
                 frame_id_numbers_present |-> frame_id_numbers_present,
                 additional_frame_id_len_minus_1 |-> afil.val,
                 delta_frame_id_len_minus_2 |-> dfil.val,
                 film_grain_params_present |-> fin.val > 0,
                 force_screen_content_tools |-> seq_force_sct.val,
                 force_integer_mv |-> seq_force_imv.val,
                 order_hint_bits |-> IF order_hints THEN ohb.val + 1 ELSE 0,
                 frame_width_bits_minus_1 |-> fwb.val,
                 frame_height_bits_minus_1 |-> fhb.val,
                 max_frame_width_minus_1 |-> mfw.val,
                 max_frame_height_minus_1 |-> mfh.val,
                 decoder_model_info |-> IF reduced THEN <<>> ELSE decoder_model_info_opt,
                 decoder_model_present_for_op |-> decoder_model_present_for_op,
                 operating_points_cnt_minus_1 |-> IF reduced THEN 0 ELSE cnt.val,
                 operating_point_idc |-> operating_point_idc,
                 cur_operating_point_idc |-> operating_point_idc[choose_operating_point + 1],
                 timing_info |-> IF reduced THEN <<>> ELSE timing_info_opt,
                 enable_ref_frame_mvs |-> enable_ref_frame_mvs.val > 0,
                 enable_warped_motion |-> enable_warped_motion.val > 0,
                 enable_superres |-> enable_superres.val > 0,
                 enable_cdef |-> enable_cdef.val > 0,
                 enable_restoration |-> enable_restoration.val > 0,
                 use_128x128_superblock |-> use_128x128_superblock.val > 0,
                 color_config |-> cc.val]>>]

\* parse_sequence_header, continued from byte_pos
parse_sequence_header_7(write, incoming_is_some, self_packet_out, input, b, reduced, decoder_model_info_opt, timing_info_opt, cnt, operating_point_idc, decoder_model_present_for_op, fwb, fhb, mfw, mfh, frame_id_numbers_present, dfil, afil, use_128x128_superblock, enable_warped_motion, order_hints, enable_ref_frame_mvs, seq_force_sct, seq_force_imv, ohb, enable_superres, enable_cdef, enable_restoration, cc) ==
        \* the WRITE block
    LET byte_pos == cc.pos \div 8
        bit_offset == cc.pos % 8
        index_panics == write /\ byte_pos >= Len(input)
        copy == [input EXCEPT ![byte_pos + 1] = set_bit(@, bit_offset, incoming_is_some)]
        film_grain_params_present == take(b, panic_if(cc, index_panics), 1)
        fin == film_grain_params_present
    IN Sequenced(<<film_grain_params_present>>,
                 parse_sequence_header_8(write, incoming_is_some, self_packet_out, input,
                                         reduced, decoder_model_info_opt, timing_info_opt,
                                         cnt, operating_point_idc,
                                         decoder_model_present_for_op, fwb, fhb, mfw, mfh,
                                         frame_id_numbers_present, dfil, afil,
                                         use_128x128_superblock, enable_warped_motion,
                                         order_hints, enable_ref_frame_mvs, seq_force_sct,
                                         seq_force_imv, ohb, enable_superres, enable_cdef,
                                         enable_restoration, cc, index_panics, copy, fin))

\* parse_sequence_header, continued from cc
parse_sequence_header_6(write, incoming_is_some, self_packet_out, input, b, seq_profile, reduced, decoder_model_info_opt, timing_info_opt, cnt, operating_point_idc, decoder_model_present_for_op, fwb, fhb, mfw, mfh, frame_id_numbers_present, dfil, afil, use_128x128_superblock, enable_warped_motion, order_hints, enable_ref_frame_mvs, seq_force_sct, seq_force_imv, ohb, enable_superres, enable_cdef, enable_restoration) ==
    LET cc == color_config(b, enable_restoration, seq_profile.val)
    IN Sequenced(<<cc>>,
                 parse_sequence_header_7(write, incoming_is_some, self_packet_out, input,
                                         b, reduced, decoder_model_info_opt,
                                         timing_info_opt, cnt, operating_point_idc,
                                         decoder_model_present_for_op, fwb, fhb, mfw, mfh,
                                         frame_id_numbers_present, dfil, afil,
                                         use_128x128_superblock, enable_warped_motion,
                                         order_hints, enable_ref_frame_mvs, seq_force_sct,
                                         seq_force_imv, ohb, enable_superres, enable_cdef,
                                         enable_restoration, cc))

\* parse_sequence_header, continued from enable_superres
parse_sequence_header_5(write, incoming_is_some, self_packet_out, input, b, seq_profile, reduced, decoder_model_info_opt, timing_info_opt, cnt, operating_point_idc, decoder_model_present_for_op, fwb, fhb, mfw, mfh, frame_id_numbers_present, dfil, afil, use_128x128_superblock, enable_warped_motion, order_hints, enable_ref_frame_mvs, seq_force_sct, seq_force_imv, ohb) ==
    LET enable_superres == take(b, ohb, 1)
        enable_cdef == take(b, enable_superres, 1)
        enable_restoration == take(b, enable_cdef, 1)
    IN Sequenced(<<enable_restoration>>,
                 parse_sequence_header_6(write, incoming_is_some, self_packet_out, input,
                                         b, seq_profile, reduced, decoder_model_info_opt,
                                         timing_info_opt, cnt, operating_point_idc,
                                         decoder_model_present_for_op, fwb, fhb, mfw, mfh,
                                         frame_id_numbers_present, dfil, afil,
                                         use_128x128_superblock, enable_warped_motion,
                                         order_hints, enable_ref_frame_mvs, seq_force_sct,
                                         seq_force_imv, ohb, enable_superres, enable_cdef,
                                         enable_restoration))

\* parse_sequence_header, continued from enable_order_hint
parse_sequence_header_4(write, incoming_is_some, self_packet_out, input, b, seq_profile, reduced, decoder_model_info_opt, timing_info_opt, cnt, operating_point_idc, decoder_model_present_for_op, fwb, fhb, mfw, mfh, frame_id_numbers_present, dfil, afil, use_128x128_superblock, enable_warped_motion, enable_dual_filter) ==
    LET enable_order_hint == take_if(b, enable_dual_filter, ~reduced, 1, 0)
        order_hints == ~reduced /\ enable_order_hint.val > 0
        enable_jnt_comp == take_if(b, enable_order_hint, order_hints, 1, 0)
        enable_ref_frame_mvs == take_if(b, enable_jnt_comp, order_hints, 1, 0)
        seq_choose_sct == take_if(b, enable_ref_frame_mvs, ~reduced, 1, 0)
        seq_force_sct == take_if(b, seq_choose_sct, ~reduced /\ seq_choose_sct.val = 0, 1,
                                 SELECT_SCREEN_CONTENT_TOOLS)
        seq_choose_imv == take_if(b, seq_force_sct, ~reduced /\ seq_force_sct.val > 0, 1, 0)
        seq_force_imv == take_if(b, seq_choose_imv,
                                 ~reduced /\ seq_force_sct.val > 0 /\ seq_choose_imv.val = 0,
                                 1, SELECT_INTEGER_MV)
        ohb == take_if(b, seq_force_imv, order_hints, 3, 0)
    IN Sequenced(<<enable_ref_frame_mvs, seq_choose_imv, ohb>>,
                 parse_sequence_header_5(write, incoming_is_some, self_packet_out, input,
                                         b, seq_profile, reduced, decoder_model_info_opt,
                                         timing_info_opt, cnt, operating_point_idc,
                                         decoder_model_present_for_op, fwb, fhb, mfw, mfh,
                                         frame_id_numbers_present, dfil, afil,
                                         use_128x128_superblock, enable_warped_motion,
                                         order_hints, enable_ref_frame_mvs, seq_force_sct,
                                         seq_force_imv, ohb))

\* parse_sequence_header, continued from indexed
parse_sequence_header_3(write, incoming_is_some, self_packet_out, input, b, seq_profile, reduced, decoder_model_info_opt, timing_info_opt, cnt, joined, operating_point_idc, decoder_model_present_for_op) ==
        \* operating_point_idc[operating_point]: the index panics on an empty vector
    LET indexed == panic_if(joined, Len(operating_point_idc) <= choose_operating_point)
        fwb == take(b, indexed, 4)
        fhb == take(b, fwb, 4)
        mfw == take(b, fhb, fwb.val + 1)
        mfh == take(b, mfw, fhb.val + 1)
        finp == take_if(b, mfh, ~reduced, 1, 0)
        frame_id_numbers_present == finp.val > 0
        dfil == take_if(b, finp, frame_id_numbers_present, 4, 0)
        afil == take_if(b, dfil, frame_id_numbers_present, 3, 0)
        use_128x128_superblock == take(b, afil, 1)
        enable_filter_intra == take(b, use_128x128_superblock, 1)
        enable_intra_edge_filter == take(b, enable_filter_intra, 1)
        enable_interintra_compound == take_if(b, enable_intra_edge_filter, ~reduced, 1, 0)
        enable_masked_compound == take_if(b, enable_interintra_compound, ~reduced, 1, 0)
        enable_warped_motion == take_if(b, enable_masked_compound, ~reduced, 1, 0)
        enable_dual_filter == take_if(b, enable_warped_motion, ~reduced, 1, 0)
    IN Sequenced(<<fhb, finp, use_128x128_superblock, enable_interintra_compound,
                    enable_dual_filter>>,
                 parse_sequence_header_4(write, incoming_is_some, self_packet_out, input,
                                         b, seq_profile, reduced, decoder_model_info_opt,
                                         timing_info_opt, cnt, operating_point_idc,
                                         decoder_model_present_for_op, fwb, fhb, mfw, mfh,
                                         frame_id_numbers_present, dfil, afil,
                                         use_128x128_superblock, enable_warped_motion,
                                         enable_dual_filter))

\* parse_sequence_header, continued from decoder_model_info_opt
parse_sequence_header_2(write, incoming_is_some, self_packet_out, input, b, seq_profile, reduced_r, reduced, seq_level_idx, tipf, ti, has_dmi, dmi) ==
    LET decoder_model_info_opt == IF has_dmi THEN <<dmi.val>> ELSE <<>>
        timing_info_opt == IF tipf.val > 0
                           THEN <<[equal_picture_interval |-> ti.val > 0]>> ELSE <<>>
        iddpf == take(b, dmi, 1)
        cnt == take(b, iddpf, 5)
        ops == operating_points(b, cnt, cnt.val + 1, decoder_model_info_opt,
                                iddpf.val > 0, <<>>, <<>>)
        \* both branches join
        joined == IF reduced_r.st # "ok" THEN reduced_r
                  ELSE IF reduced THEN seq_level_idx ELSE ops
        operating_point_idc == IF reduced THEN <<>> ELSE ops.val.idc
        decoder_model_present_for_op == IF reduced THEN <<>> ELSE ops.val.present
    IN Sequenced(<<ops>>,
                 parse_sequence_header_3(write, incoming_is_some, self_packet_out, input,
                                         b, seq_profile, reduced, decoder_model_info_opt,
                                         timing_info_opt, cnt, joined, operating_point_idc,
                                         decoder_model_present_for_op))

\* parse_sequence_header over `input`, the slice parse_obu hands it: all that
\* is left of the packet after the OBU header and size field. The result is
\* [st, consumed, flag_pos, packet_out, header]: consumed is what bits() takes
\* from the input (whole bytes), flag_pos the bit position the reader stands at
\* when it reads film_grain_params_present, packet_out the parser's output
\* buffer afterwards.
\* In rewrite mode the function copies the whole of `input`, sets one bit of
\* the byte the reader stands in and appends the copy to packet_out.
parse_sequence_header(write, incoming_is_some, self_packet_out, input) ==
    LET b == input
        seq_profile == take(b, NewReader, 3)
        still_picture == take(b, seq_profile, 1)
        reduced_r == take(b, still_picture, 1)
        reduced == reduced_r.val > 0
        \* reduced_still_picture_header
        seq_level_idx == take(b, reduced_r, 5)
        \* otherwise
        tipf == take(b, reduced_r, 1)
        ti == IF tipf.st = "ok" /\ tipf.val > 0 THEN timing_info(b, tipf) ELSE tipf
        dmipf == take_if(b, ti, tipf.val > 0, 1, 0)
        has_dmi == tipf.val > 0 /\ dmipf.val > 0
        dmi == IF dmipf.st = "ok" /\ has_dmi THEN decoder_model_info(b, dmipf) ELSE dmipf
    IN Sequenced(<<reduced_r, dmipf>>,
                 parse_sequence_header_2(write, incoming_is_some, self_packet_out, input,
                                         b, seq_profile, reduced_r, reduced, seq_level_idx,
                                         tipf, ti, has_dmi, dmi))

(***************************************************************************)
(* frame.rs: the frame header and the parsers it calls.                    *)
(***************************************************************************)
REFS_PER_FRAME == 7

NUM_REF_FRAMES == 8

REFRESH_ALL_FRAMES == 255

PRIMARY_REF_NONE == 7

SUPERRES_DENOM_BITS == 3

SUPERRES_DENOM_MIN == 9

SUPERRES_NUM == 8

MAX_TILE_WIDTH == 4096

MAX_TILE_COLS == 64

MAX_TILE_ROWS == 64

MAX_TILE_AREA == 4096 * 2304

MAX_SEGMENTS == 8

SEG_LVL_MAX == 8

SEG_LVL_ALT_Q == 0

MAX_LOOP_FILTER == 63

SEGMENTATION_FEATURE_BITS == <<8, 6, 6, 6, 6, 3, 0, 0>>

SEGMENTATION_FEATURE_SIGNED == <<TRUE, TRUE, TRUE, TRUE, TRUE, FALSE, FALSE, FALSE>>

SEGMENTATION_FEATURE_MAX ==
    <<255, MAX_LOOP_FILTER, MAX_LOOP_FILTER, MAX_LOOP_FILTER, MAX_LOOP_FILTER, 7, 0, 0>>

RESTORE_NONE == 0

\* FrameType, by discriminant
Key == 0

Inter == 1

IntraOnly == 2

Switch == 3

\* FrameType::is_intra
is_intra(frame_type) == frame_type = Key \/ frame_type = IntraOnly

\* RefType::Last as usize
Last == 1

\* SequenceHeader::enable_order_hint
enable_order_hint(sequence_header) == sequence_header.order_hint_bits > 0

\* superres_params; val is [frame_size, upscaled_size], the two &mut arguments
\* as the function leaves them
superres_params(b, r, enable_superres, frame_size, upscaled_size) ==
    LET use_superres == take_if(b, r, enable_superres, 1, 0)
        coded_denom == take_if(b, use_superres, use_superres.val > 0, SUPERRES_DENOM_BITS, 0)
        superres_denom == IF use_superres.val > 0 THEN coded_denom.val + SUPERRES_DENOM_MIN
                          ELSE SUPERRES_NUM
        up == [upscaled_size EXCEPT !.width = frame_size.width]
        fs == [frame_size EXCEPT !.width =
                  (up.width * SUPERRES_NUM + (superres_denom \div 2)) \div superres_denom]
    IN IF coded_denom.st # "ok" THEN coded_denom
       ELSE WithVal(coded_denom, [frame_size |-> fs, upscaled_size |-> up])

\* frame_size; val is the Dimensions returned
frame_size(b, r, frame_size_override, enable_superres, frame_width_bits, frame_height_bits, max_frame_size) ==
    LET width_minus_1 == take_if(b, r, frame_size_override, frame_width_bits, 0)
        height_minus_1 == take_if(b, width_minus_1, frame_size_override, frame_height_bits, 0)
        dims == IF frame_size_override
                THEN [width |-> width_minus_1.val + 1, height |-> height_minus_1.val + 1]
                ELSE max_frame_size
        sp == superres_params(b, height_minus_1, enable_superres, dims, dims)
    IN IF sp.st # "ok" THEN sp ELSE WithVal(sp, sp.val.frame_size)

\* render_size; val is the Dimensions returned
render_size(b, r, frame_size_arg, upscaled_size) ==
    LET different == take(b, r, 1)
        w == take_if(b, different, different.val > 0, 16, 0)
        h == take_if(b, w, different.val > 0, 16, 0)
    IN IF h.st # "ok" THEN h
       ELSE WithVal(h, IF different.val > 0
                               THEN [width |-> w.val + 1, height |-> h.val + 1]
                               ELSE [width |-> upscaled_size.width,
                                     height |-> frame_size_arg.height])

\* the loop of frame_size_with_refs: up to REFS_PER_FRAME found_ref bits; val
\* is found_ref as 0 or 1
RECURSIVE found_ref_loop(_, _, _)
found_ref_loop(b, r, i) ==
    IF r.st # "ok" THEN r
    ELSE IF i = REFS_PER_FRAME THEN WithVal(r, 0)
    ELSE LET t == take(b, r, 1)
         IN IF t.st = "ok" /\ t.val > 0 THEN t ELSE found_ref_loop(b, t, i + 1)

\* frame_size_with_refs, concluded
frame_size_with_refs_3(b, r, enable_superres, frame_size_override, frame_width_bits, frame_height_bits, max_frame_size, ref_frame_size, ref_upscaled_size, found, sp, fs, rs) ==
    IF found.st # "ok" THEN found
    ELSE IF found.val > 0 THEN sp
    ELSE IF rs.st # "ok" THEN rs
    ELSE WithVal(rs, [frame_size |-> fs.val, upscaled_size |-> ref_upscaled_size])

\* frame_size_with_refs, continued from rs
frame_size_with_refs_2(b, r, enable_superres, frame_size_override, frame_width_bits, frame_height_bits, max_frame_size, ref_frame_size, ref_upscaled_size, found, sp, fs) ==
    LET rs == IF fs.st = "ok" THEN render_size(b, fs, fs.val, ref_upscaled_size) ELSE fs
    IN frame_size_with_refs_3(b, r, enable_superres, frame_size_override, frame_width_bits,
                              frame_height_bits, max_frame_size, ref_frame_size,
                              ref_upscaled_size, found, sp, fs, rs)

\* frame_size_with_refs; val is [frame_size, upscaled_size]: the Dimensions
\* returned and the caller's upscaled_size afterwards
frame_size_with_refs(b, r, enable_superres, frame_size_override, frame_width_bits, frame_height_bits, max_frame_size, ref_frame_size, ref_upscaled_size) ==
    LET found == found_ref_loop(b, r, 0)
        sp == superres_params(b, found, enable_superres, ref_frame_size, ref_upscaled_size)
        fs == frame_size(b, found, frame_size_override, enable_superres, frame_width_bits,
                         frame_height_bits, max_frame_size)
    IN Sequenced(<<fs>>,
                 frame_size_with_refs_2(b, r, enable_superres, frame_size_override,
                                        frame_width_bits, frame_height_bits,
                                        max_frame_size, ref_frame_size, ref_upscaled_size,
                                        found, sp, fs))

\* compute_image_size
compute_image_size(frame_size_arg) ==
    [mi_cols |-> 2 * ((frame_size_arg.width + 7) \div 8),
     mi_rows |-> 2 * ((frame_size_arg.height + 7) \div 8)]

\* read_interpolation_filter
read_interpolation_filter(b, r) ==
    LET is_filter_switchable == take(b, r, 1)
    IN take_if(b, is_filter_switchable, is_filter_switchable.val = 0, 2, 4)

\* tile_log2: the smallest k with blk_size << k >= target
RECURSIVE tile_log2_loop(_, _, _)
tile_log2_loop(blk_size, target, k) ==
    IF blk_size * Pow2(k) < target THEN tile_log2_loop(blk_size, target, k + 1) ELSE k

tile_log2(blk_size, target) == tile_log2_loop(blk_size, target, 0)

\* the `while log2 < max_log2 { increment bit }` loops of tile_info; val is
\* the exponent reached
RECURSIVE increment_log2(_, _, _, _)
increment_log2(b, r, log2, max_log2) ==
    IF r.st # "ok" THEN r
    ELSE IF log2 >= max_log2 THEN WithVal(r, log2)
    ELSE LET t == take(b, r, 1)
         IN IF t.st # "ok" THEN t
            ELSE IF t.val > 0 THEN increment_log2(b, t, log2 + 1, max_log2)
            ELSE WithVal(t, log2)

\* `for i in (0..sb).step_by(step) { tiles = i + 1 }`: one more than the last
\* start the iterator yields
step_by_last_plus_1(sb, step) == ((sb - 1) \div step) * step + 1

\* the `while start_sb < sb { ns(..) }` loops of tile_info for explicit tile
\* sizes; val is [i, widest_tile_sb]
RECURSIVE explicit_tiles(_, _, _, _, _, _, _)
explicit_tiles(b, r, sb, max_tile_sb, start_sb, i, widest_tile_sb) ==
    IF r.st # "ok" THEN r
    ELSE IF start_sb >= sb THEN WithVal(r, [i |-> i, widest_tile_sb |-> widest_tile_sb])
    ELSE LET max_size == Min(sb - start_sb, max_tile_sb)
             size_minus_1 == ns(b, r, max_size)
             size_sb == size_minus_1.val + 1
         IN IF size_minus_1.st # "ok" THEN size_minus_1
            ELSE explicit_tiles(b, size_minus_1, sb, max_tile_sb, start_sb + size_sb, i + 1,
                                Max(size_sb, widest_tile_sb))

\* tile_info, concluded
tile_info_4(b, r, use_128x128_superblock, mi_cols, mi_rows, tile_cols, tile_rows, tile_cols_log2, tile_rows_log2, tile_size_bytes_minus_1) ==
    IF tile_size_bytes_minus_1.st # "ok" THEN tile_size_bytes_minus_1
    ELSE WithVal(tile_size_bytes_minus_1, [tile_cols |-> tile_cols, tile_rows |-> tile_rows,
              tile_cols_log2 |-> tile_cols_log2, tile_rows_log2 |-> tile_rows_log2])

\* tile_info, continued from asserted
tile_info_3(b, r, use_128x128_superblock, mi_cols, mi_rows, joined, tile_cols, tile_rows, tile_cols_log2, tile_rows_log2) ==
    LET asserted == IF joined.st # "ok" THEN joined
                    ELSE panic_if(joined, ~(tile_cols > 0) \/ ~(tile_rows > 0))
        has_id == asserted.st = "ok" /\ (tile_cols_log2 > 0 \/ tile_rows_log2 > 0)
        context_update_tile_id == IF has_id THEN skip(b, asserted, tile_rows_log2 + tile_cols_log2)
                                  ELSE asserted
        tile_size_bytes_minus_1 == IF has_id THEN take(b, context_update_tile_id, 2)
                                   ELSE asserted
    IN tile_info_4(b, r, use_128x128_superblock, mi_cols, mi_rows, tile_cols, tile_rows,
                   tile_cols_log2, tile_rows_log2, tile_size_bytes_minus_1)

\* tile_info, continued from e_rows
tile_info_2(b, r, use_128x128_superblock, mi_cols, mi_rows, sb_cols, sb_rows, uniform_tile_spacing_flag, u_cols, tile_width_sb, u_rows, tile_height_sb, e_cols, max_tile_height_sb) ==
    LET e_rows == IF e_cols.st = "ok"
                  THEN explicit_tiles(b, e_cols, sb_rows, max_tile_height_sb, 0, 0, 0)
                  ELSE e_cols
        uniform == uniform_tile_spacing_flag.val > 0
        joined == IF uniform_tile_spacing_flag.st # "ok" THEN uniform_tile_spacing_flag
                  ELSE IF uniform THEN u_rows ELSE e_rows
        tile_cols == IF uniform THEN step_by_last_plus_1(sb_cols, tile_width_sb)
                     ELSE e_cols.val.i
        tile_rows == IF uniform THEN step_by_last_plus_1(sb_rows, tile_height_sb)
                     ELSE e_rows.val.i
        tile_cols_log2 == IF uniform THEN u_cols.val ELSE tile_log2(1, tile_cols)
        tile_rows_log2 == IF uniform THEN u_rows.val ELSE tile_log2(1, tile_rows)
    IN tile_info_3(b, r, use_128x128_superblock, mi_cols, mi_rows, joined, tile_cols,
                   tile_rows, tile_cols_log2, tile_rows_log2)

\* tile_info; val is the TileInfo
tile_info(b, r, use_128x128_superblock, mi_cols, mi_rows) ==
    LET sb_cols == IF use_128x128_superblock THEN (mi_cols + 31) \div 32
                   ELSE (mi_cols + 15) \div 16
        sb_rows == IF use_128x128_superblock THEN (mi_rows + 31) \div 32
                   ELSE (mi_rows + 15) \div 16
        sb_shift == IF use_128x128_superblock THEN 5 ELSE 4
        sb_size == sb_shift + 2
        max_tile_width_sb == MAX_TILE_WIDTH \div Pow2(sb_size)
        max_tile_area_sb == MAX_TILE_AREA \div Pow2(2 * sb_size)
        min_log2_tile_cols == tile_log2(max_tile_width_sb, sb_cols)
        max_log2_tile_cols == tile_log2(1, Min(sb_cols, MAX_TILE_COLS))
        max_log2_tile_rows == tile_log2(1, Min(sb_rows, MAX_TILE_ROWS))
        min_log2_tiles == Max(min_log2_tile_cols, tile_log2(max_tile_area_sb, sb_rows * sb_cols))
        uniform_tile_spacing_flag == take(b, r, 1)
        \* uniform spacing
        u_cols == increment_log2(b, uniform_tile_spacing_flag, min_log2_tile_cols,
                                 max_log2_tile_cols)
        tile_width_sb == (sb_cols + Pow2(u_cols.val) - 1) \div Pow2(u_cols.val)
        min_log2_tile_rows == Max(min_log2_tiles - u_cols.val, 0)
        u_rows == increment_log2(b, u_cols, min_log2_tile_rows, max_log2_tile_rows)
        tile_height_sb == (sb_rows + Pow2(u_rows.val) - 1) \div Pow2(u_rows.val)
        \* explicit sizes
        e_cols == explicit_tiles(b, uniform_tile_spacing_flag, sb_cols, max_tile_width_sb,
                                 0, 0, 0)
        max_tile_height_sb == Max(max_tile_area_sb \div e_cols.val.widest_tile_sb, 1)
    IN Sequenced(<<u_rows, e_cols>>,
                 tile_info_2(b, r, use_128x128_superblock, mi_cols, mi_rows, sb_cols,
                             sb_rows, uniform_tile_spacing_flag, u_cols, tile_width_sb,
                             u_rows, tile_height_sb, e_cols, max_tile_height_sb))

\* read_delta_q
read_delta_q(b, r) ==
    LET delta_coded == take(b, r, 1)
    IN IF delta_coded.st # "ok" THEN delta_coded
       ELSE IF delta_coded.val > 0 THEN su(b, delta_coded, 1 + 6)
       ELSE WithVal(delta_coded, 0)

\* quantization_params, concluded
quantization_params_4(b, r, num_planes, separate_uv_delta_q, base_q_idx, deltaq_y_dc, deltaq_u_dc, deltaq_u_ac, deltaq_v_dc, deltaq_v_ac, qm_v) ==
    IF qm_v.st # "ok" THEN qm_v
    ELSE WithVal(qm_v, [base_q_idx |-> base_q_idx.val, deltaq_y_dc |-> deltaq_y_dc.val,
              deltaq_u_ac |-> deltaq_u_ac.val, deltaq_u_dc |-> deltaq_u_dc.val,
              deltaq_v_ac |-> deltaq_v_ac.val, deltaq_v_dc |-> deltaq_v_dc.val])

\* quantization_params, continued from qm_v
quantization_params_3(b, r, num_planes, separate_uv_delta_q, base_q_idx, deltaq_y_dc, deltaq_u_dc, deltaq_u_ac, deltaq_v_dc, deltaq_v_ac, qm, qm_u) ==
    LET qm_v == take_if(b, qm_u, qm /\ separate_uv_delta_q, 4, 0)
    IN Sequenced(<<qm_v>>,
                 quantization_params_4(b, r, num_planes, separate_uv_delta_q, base_q_idx,
                                       deltaq_y_dc, deltaq_u_dc, deltaq_u_ac, deltaq_v_dc,
                                       deltaq_v_ac, qm_v))

\* quantization_params, continued from deltaq_v_dc
quantization_params_2(b, r, num_planes, separate_uv_delta_q, base_q_idx, deltaq_y_dc, deltaq_u_dc, deltaq_u_ac, diff) ==
    LET deltaq_v_dc == IF diff THEN read_delta_q(b, deltaq_u_ac)
                       ELSE WithVal(deltaq_u_ac, deltaq_u_dc.val)
        deltaq_v_ac == IF diff THEN read_delta_q(b, deltaq_v_dc)
                       ELSE WithVal(deltaq_v_dc, deltaq_u_ac.val)
        using_qmatrix == take(b, deltaq_v_ac, 1)
        qm == using_qmatrix.val > 0
        qm_y == take_if(b, using_qmatrix, qm, 4, 0)
        qm_u == take_if(b, qm_y, qm, 4, 0)
    IN Sequenced(<<qm_u>>,
                 quantization_params_3(b, r, num_planes, separate_uv_delta_q, base_q_idx,
                                       deltaq_y_dc, deltaq_u_dc, deltaq_u_ac, deltaq_v_dc,
                                       deltaq_v_ac, qm, qm_u))

\* quantization_params; val is the QuantizationParams
quantization_params(b, r, num_planes, separate_uv_delta_q) ==
    LET base_q_idx == take(b, r, 8)
        deltaq_y_dc == read_delta_q(b, base_q_idx)
        chroma == num_planes > 1
        diff_uv_delta == take_if(b, deltaq_y_dc, chroma /\ separate_uv_delta_q, 1, 0)
        deltaq_u_dc == IF chroma THEN read_delta_q(b, diff_uv_delta)
                       ELSE WithVal(diff_uv_delta, 0)
        deltaq_u_ac == IF chroma THEN read_delta_q(b, deltaq_u_dc)
                       ELSE WithVal(deltaq_u_dc, 0)
        diff == chroma /\ diff_uv_delta.val > 0
    IN Sequenced(<<diff_uv_delta>>,
                 quantization_params_2(b, r, num_planes, separate_uv_delta_q, base_q_idx,
                                       deltaq_y_dc, deltaq_u_dc, deltaq_u_ac, diff))

\* i16 clamp
clamp(x, lo, hi) == IF x < lo THEN lo ELSE IF x > hi THEN hi ELSE x

\* SegmentationData::default(): MAX_SEGMENTS rows of SEG_LVL_MAX None
DefaultSegmentationData == [i \in 1 .. MAX_SEGMENTS |-> [j \in 1 .. SEG_LVL_MAX |-> <<>>]]

\* the two nested loops of segmentation_params, k = i * SEG_LVL_MAX + j; val
\* is the SegmentationData
RECURSIVE segmentation_features(_, _, _, _)
segmentation_features(b, r, k, segmentation_data) ==
    IF r.st # "ok" THEN r
    ELSE IF k = MAX_SEGMENTS * SEG_LVL_MAX THEN WithVal(r, segmentation_data)
    ELSE LET i == k \div SEG_LVL_MAX
             j == k % SEG_LVL_MAX
             feature_enabled == take(b, r, 1)
             bits_to_read == SEGMENTATION_FEATURE_BITS[j + 1]
             limit == SEGMENTATION_FEATURE_MAX[j + 1]
             value == IF SEGMENTATION_FEATURE_SIGNED[j + 1]
                      THEN su(b, feature_enabled, 1 + bits_to_read)
                      ELSE take(b, feature_enabled, bits_to_read)
             feature_value == IF SEGMENTATION_FEATURE_SIGNED[j + 1]
                              THEN clamp(value.val, -limit, limit)
                              ELSE clamp(value.val, 0, limit)
         IN IF feature_enabled.st # "ok" THEN feature_enabled
            ELSE IF feature_enabled.val = 0
            THEN segmentation_features(b, feature_enabled, k + 1, segmentation_data)
            ELSE IF value.st # "ok" THEN value
            ELSE segmentation_features(b, value, k + 1,
                     [segmentation_data EXCEPT ![i + 1][j + 1] = <<feature_value>>])

\* segmentation_params, concluded
segmentation_params_2(b, r, primary_ref_frame, enabled, features) ==
    IF features.st # "ok" THEN features
    ELSE WithVal(features, IF enabled THEN <<features.val>> ELSE <<>>)

\* segmentation_params; val is the Option<SegmentationData>
segmentation_params(b, r, primary_ref_frame) ==
    LET segmentation_enabled == take(b, r, 1)
        enabled == segmentation_enabled.val > 0
        read_flags == enabled /\ primary_ref_frame # PRIMARY_REF_NONE
        segmentation_update_map == take_if(b, segmentation_enabled, read_flags, 1, 0)
        segmentation_temporal_update ==
            take_if(b, segmentation_update_map,
                    read_flags /\ segmentation_update_map.val > 0, 1, 0)
        segmentation_update_data == take_if(b, segmentation_temporal_update, read_flags, 1, 1)
        features == IF enabled /\ segmentation_update_data.val > 0
                    THEN segmentation_features(b, segmentation_update_data, 0,
                                               DefaultSegmentationData)
                    ELSE WithVal(segmentation_update_data, DefaultSegmentationData)
    IN Sequenced(<<segmentation_temporal_update, segmentation_update_data>>,
                 segmentation_params_2(b, r, primary_ref_frame, enabled, features))

\* delta_q_params; val is delta_q_present as 0 or 1
delta_q_params(b, r, base_q_idx) ==
    LET delta_q_present == take_if(b, r, base_q_idx > 0, 1, 0)
        delta_q_res == take_if(b, delta_q_present, delta_q_present.val > 0, 2, 0)
    IN IF delta_q_res.st # "ok" THEN delta_q_res
       ELSE WithVal(delta_q_res, delta_q_present.val)

\* delta_lf_params
delta_lf_params(b, r, delta_q_present, allow_intrabc) ==
    LET delta_lf_present == take_if(b, r, delta_q_present /\ ~allow_intrabc, 1, 0)
        present == delta_q_present /\ delta_lf_present.val > 0
        delta_lf_res == take_if(b, delta_lf_present, present, 2, 0)
    IN take_if(b, delta_lf_res, present, 1, 0)

\* seg_feature_active_idx
seg_feature_active_idx(segment_id, feature, feature_data) ==
    feature_data # <<>> /\ feature_data[1][segment_id + 1][feature + 1] # <<>>

\* get_qindex
get_qindex(ignore_delta_q, segment_id, base_q_idx, current_q_index, feature_data) ==
    IF seg_feature_active_idx(segment_id, SEG_LVL_ALT_Q, feature_data)
    THEN LET data == feature_data[1][segment_id + 1][SEG_LVL_ALT_Q + 1][1]
             qindex == IF ~ignore_delta_q /\ current_q_index # <<>>
                       THEN current_q_index[1] + data
                       ELSE base_q_idx + data
         IN clamp(qindex, 0, 255)
    ELSE IF ~ignore_delta_q /\ current_q_index # <<>> THEN current_q_index[1]
    ELSE base_q_idx

\* the loops of loop_filter_params: n times an update bit and, when it is
\* set, a 7-bit signed delta
RECURSIVE update_deltas(_, _, _)
update_deltas(b, r, n) ==
    IF r.st # "ok" \/ n = 0 THEN r
    ELSE LET update == take(b, r, 1)
             delta == IF update.st = "ok" /\ update.val > 0 THEN su(b, update, 1 + 6)
                      ELSE update
         IN update_deltas(b, delta, n - 1)

\* loop_filter_params
loop_filter_params(b, r, coded_lossless, allow_intrabc, num_planes) ==
    LET loop_filter_l0 == take(b, r, 6)
        loop_filter_l1 == take(b, loop_filter_l0, 6)
        more == num_planes > 1 /\ (loop_filter_l0.val > 0 \/ loop_filter_l1.val > 0)
        loop_filter_l2 == take_if(b, loop_filter_l1, more, 6, 0)
        loop_filter_l3 == take_if(b, loop_filter_l2, more, 6, 0)
        loop_filter_sharpness == take(b, loop_filter_l3, 3)
        loop_filter_delta_enabled == take(b, loop_filter_sharpness, 1)
        loop_filter_delta_update ==
            take_if(b, loop_filter_delta_enabled, loop_filter_delta_enabled.val > 0, 1, 0)
        update == loop_filter_delta_enabled.val > 0 /\ loop_filter_delta_update.val > 0
        ref_deltas == IF update THEN update_deltas(b, loop_filter_delta_update, 8)
                      ELSE loop_filter_delta_update
        mode_deltas == IF update THEN update_deltas(b, ref_deltas, 2) ELSE ref_deltas
    IN IF r.st # "ok" \/ coded_lossless \/ allow_intrabc THEN r ELSE mode_deltas

\* the loop of cdef_params over the 1 << cdef_bits strengths
RECURSIVE cdef_strengths(_, _, _, _)
cdef_strengths(b, r, n, num_planes) ==
    IF r.st # "ok" \/ n = 0 THEN r
    ELSE LET cdef_y_pri_str == take(b, r, 4)
             cdef_y_sec_str == take(b, cdef_y_pri_str, 2)
             cdef_uv_pri_str == take_if(b, cdef_y_sec_str, num_planes > 1, 4, 0)
             cdef_uv_sec_str == take_if(b, cdef_uv_pri_str, num_planes > 1, 2, 0)
         IN cdef_strengths(b, cdef_uv_sec_str, n - 1, num_planes)

\* cdef_params
cdef_params(b, r, coded_lossless, allow_intrabc, enable_cdef, num_planes) ==
    LET cdef_damping_minus_3 == take(b, r, 2)
        cdef_bits == take(b, cdef_damping_minus_3, 2)
    IN IF r.st # "ok" \/ coded_lossless \/ allow_intrabc \/ ~enable_cdef THEN r
       ELSE IF cdef_bits.st # "ok" THEN cdef_bits
       ELSE cdef_strengths(b, cdef_bits, Pow2(cdef_bits.val), num_planes)

\* the loop of lr_params over the planes; val is [uses_lr, uses_chroma_lr]
RECURSIVE lr_types(_, _, _, _, _, _)
lr_types(b, r, i, num_planes, uses_lr, uses_chroma_lr) ==
    IF r.st # "ok" THEN r
    ELSE IF i = num_planes
    THEN WithVal(r, [uses_lr |-> uses_lr, uses_chroma_lr |-> uses_chroma_lr])
    ELSE LET lr_type == take(b, r, 2)
         IN lr_types(b, lr_type, i + 1, num_planes,
                     uses_lr \/ lr_type.val # RESTORE_NONE,
                     uses_chroma_lr \/ (lr_type.val # RESTORE_NONE /\ i > 0))

\* lr_params
lr_params(b, r, all_lossless, allow_intrabc, enable_restoration, use_128x128_superblock, num_planes, subsampling) ==
    LET types == lr_types(b, r, 0, num_planes, FALSE, FALSE)
        uses_lr == types.val.uses_lr
        lr_unit_shift == take_if(b, types, uses_lr, 1, 0)
        lr_unit_extra_shift ==
            take_if(b, lr_unit_shift,
                    uses_lr /\ ~use_128x128_superblock /\ lr_unit_shift.val > 0, 1, 0)
        lr_uv_shift ==
            take_if(b, lr_unit_extra_shift,
                    uses_lr /\ subsampling[1] > 0 /\ subsampling[2] > 0
                        /\ types.val.uses_chroma_lr, 1, 0)
    IN IF r.st # "ok" \/ all_lossless \/ allow_intrabc \/ ~enable_restoration THEN r
       ELSE IF types.st # "ok" THEN types
       ELSE lr_uv_shift

\* read_tx_mode
read_tx_mode(b, r, coded_lossless) == take_if(b, r, ~coded_lossless, 1, 0)

\* frame_reference_mode; val is reference_select as 0 or 1
frame_reference_mode(b, r, frame_is_intra) == take_if(b, r, ~frame_is_intra, 1, 0)

\* get_relative_dist
get_relative_dist(a, bb, order_hint_bits) ==
    IF order_hint_bits = 0 THEN 0
    ELSE LET diff == a - bb
             m == Pow2(order_hint_bits - 1)
         IN (diff % m) - m * ((diff \div m) % 2)

\* the first loop of skip_mode_params over the references; st is
\* [forward_idx, forward_hint, backward_idx, backward_hint]
RECURSIVE skip_mode_first_loop(_, _, _, _, _, _)
skip_mode_first_loop(i, st, order_hint_bits, order_hint, ref_order_hint_arg, ref_frame_idx_arg) ==
    IF i = REFS_PER_FRAME THEN st
    ELSE LET ref_hint == ref_order_hint_arg[ref_frame_idx_arg[i + 1] + 1]
             dist == get_relative_dist(ref_hint, order_hint, order_hint_bits)
             next ==
                 IF dist < 0
                 THEN (IF st.forward_idx < 0
                          \/ get_relative_dist(ref_hint, st.forward_hint, order_hint_bits) > 0
                       THEN [st EXCEPT !.forward_idx = i, !.forward_hint = ref_hint]
                       ELSE st)
                 ELSE IF dist > 0
                         /\ (st.backward_idx < 0
                             \/ get_relative_dist(ref_hint, st.backward_hint, order_hint_bits) < 0)
                 THEN [st EXCEPT !.backward_idx = i, !.backward_hint = ref_hint]
                 ELSE st
         IN skip_mode_first_loop(i + 1, next, order_hint_bits, order_hint,
                                 ref_order_hint_arg, ref_frame_idx_arg)

\* the second loop of skip_mode_params; st is
\* [second_forward_idx, second_forward_hint]
RECURSIVE skip_mode_second_loop(_, _, _, _, _, _)
skip_mode_second_loop(i, st, order_hint_bits, forward_hint, ref_order_hint_arg, ref_frame_idx_arg) ==
    IF i = REFS_PER_FRAME THEN st
    ELSE LET ref_hint == ref_order_hint_arg[ref_frame_idx_arg[i + 1] + 1]
             next ==
                 IF get_relative_dist(ref_hint, forward_hint, order_hint_bits) < 0
                    /\ (st.second_forward_idx < 0
                        \/ get_relative_dist(ref_hint, st.second_forward_hint,
                                             order_hint_bits) > 0)
                 THEN [second_forward_idx |-> i, second_forward_hint |-> ref_hint]
                 ELSE st
         IN skip_mode_second_loop(i + 1, next, order_hint_bits, forward_hint,
                                  ref_order_hint_arg, ref_frame_idx_arg)

\* skip_mode_allowed without the search for a second forward reference
skip_mode_allowed_no_second(frame_is_intra, reference_select, order_hint_bits, order_hint, ref_order_hint_arg, ref_frame_idx_arg) ==
    IF frame_is_intra \/ ~reference_select \/ order_hint_bits = 0 THEN FALSE
    ELSE LET first == skip_mode_first_loop(0,
                          [forward_idx |-> -1, forward_hint |-> -1,
                           backward_idx |-> -1, backward_hint |-> -1],
                          order_hint_bits, order_hint, ref_order_hint_arg, ref_frame_idx_arg)
         IN first.forward_idx >= 0 /\ first.backward_idx >= 0

\* skip_mode_allowed as skip_mode_params derives it
skip_mode_allowed(frame_is_intra, reference_select, order_hint_bits, order_hint, ref_order_hint_arg, ref_frame_idx_arg) ==
    IF frame_is_intra \/ ~reference_select \/ order_hint_bits = 0 THEN FALSE
    ELSE LET first == skip_mode_first_loop(0,
                          [forward_idx |-> -1, forward_hint |-> -1,
                           backward_idx |-> -1, backward_hint |-> -1],
                          order_hint_bits, order_hint, ref_order_hint_arg, ref_frame_idx_arg)
             second == skip_mode_second_loop(0,
                           [second_forward_idx |-> -1, second_forward_hint |-> -1],
                           order_hint_bits, first.forward_hint, ref_order_hint_arg,
                           ref_frame_idx_arg)
         IN IF first.forward_idx < 0 THEN FALSE
            ELSE IF first.backward_idx >= 0 THEN TRUE
            ELSE ~(second.second_forward_idx < 0)

\* skip_mode_params
skip_mode_params(b, r, frame_is_intra, reference_select, order_hint_bits, order_hint, ref_order_hint_arg, ref_frame_idx_arg) ==
    IF r.st # "ok" THEN r
    ELSE take_if(b, r,
                 skip_mode_allowed(frame_is_intra, reference_select, order_hint_bits,
                                   order_hint, ref_order_hint_arg, ref_frame_idx_arg),
                 1, 0)

\* the loop of global_motion_params over Last ..= Altref
RECURSIVE global_motion_loop(_, _, _)
global_motion_loop(b, r, n) ==
    IF r.st # "ok" \/ n = 0 THEN r
    ELSE LET is_global == take(b, r, 1)
             is_rot_zoom == take_if(b, is_global, is_global.val > 0, 1, 0)
             is_translation == take_if(b, is_rot_zoom,
                                       is_global.val > 0 /\ is_rot_zoom.val = 0, 1, 0)
         IN global_motion_loop(b, is_translation, n - 1)

\* global_motion_params
global_motion_params(b, r, frame_is_intra) ==
    IF r.st # "ok" \/ frame_is_intra THEN r ELSE global_motion_loop(b, r, REFS_PER_FRAME)

(***************************************************************************)
(* grain.rs: the film grain parameters of a frame header.                  *)
(***************************************************************************)
\* av1_grain's capacities of the ArrayVecs of FilmGrainParams
NUM_Y_POINTS == 14

NUM_UV_POINTS == 10

NUM_Y_COEFFS == 24

NUM_UV_COEFFS == 25

\* `for _ in 0..n { take(8); take(8); points.push([value, scaling]) }`; val is
\* the ArrayVec; a push beyond its capacity panics
RECURSIVE scaling_points(_, _, _, _, _)
scaling_points(b, r, n, capacity, points) ==
    IF r.st # "ok" THEN r
    ELSE IF n = 0 THEN WithVal(r, points)
    ELSE LET value == take(b, r, 8)
             scaling == take(b, value, 8)
         IN IF scaling.st # "ok" THEN scaling
            ELSE IF Len(points) >= capacity THEN Failed(scaling, "panic")
            ELSE scaling_points(b, scaling, n - 1, capacity,
                                Append(points, <<value.val, scaling.val>>))

\* `for _ in 0..n { take(8); coeffs.push((coeff_plus_128 - 128) as i8) }`
RECURSIVE ar_coeffs(_, _, _, _, _)
ar_coeffs(b, r, n, capacity, coeffs) ==
    IF r.st # "ok" THEN r
    ELSE IF n = 0 THEN WithVal(r, coeffs)
    ELSE LET coeff_plus_128 == take(b, r, 8)
         IN IF coeff_plus_128.st # "ok" THEN coeff_plus_128
            ELSE IF Len(coeffs) >= capacity THEN Failed(coeff_plus_128, "panic")
            ELSE ar_coeffs(b, coeff_plus_128, n - 1, capacity,
                           Append(coeffs, coeff_plus_128.val - 128))

\* film_grain_params, concluded
film_grain_params_4(b, r, film_grain_allowed, frame_type, monochrome, subsampling, apply_grain, grain_seed, update_grain, film_grain_params_ref_idx, points_y, chroma_scaling_from_luma, points_cb, points_cr, ar_coeff_lag, coeffs_y, coeffs_cb, coeffs_cr, ar_coeff_shift_minus_6, grain_scale_shift, cb_mult, cb_luma_mult, cb_offset, cr_mult, cr_luma_mult, cr_offset, overlap_flag, clip_to_restricted_range, fin) ==
    IF r.st # "ok" THEN r
    ELSE IF ~film_grain_allowed THEN WithVal(r, Disable)
    ELSE IF apply_grain.st # "ok" THEN apply_grain
    ELSE IF apply_grain.val = 0 THEN WithVal(apply_grain, Disable)
    ELSE IF update_grain.st # "ok" THEN update_grain
    ELSE IF update_grain.val = 0
    THEN (IF film_grain_params_ref_idx.st # "ok" THEN film_grain_params_ref_idx
          ELSE WithVal(film_grain_params_ref_idx, CopyRefFrame))
    ELSE IF fin.st # "ok" THEN fin
    ELSE WithVal(fin, UpdateGrain(
             [grain_seed |-> grain_seed.val,
              scaling_points_y |-> points_y.val,
              scaling_points_cb |-> points_cb.val,
              scaling_points_cr |-> points_cr.val,
              scaling_shift |-> 8,
              ar_coeff_lag |-> ar_coeff_lag.val,
              ar_coeffs_y |-> coeffs_y.val,
              ar_coeffs_cb |-> coeffs_cb.val,
              ar_coeffs_cr |-> coeffs_cr.val,
              ar_coeff_shift |-> ar_coeff_shift_minus_6.val + 6,
              cb_mult |-> cb_mult.val,
              cb_luma_mult |-> cb_luma_mult.val,
              cb_offset |-> cb_offset.val,
              cr_mult |-> cr_mult.val,
              cr_luma_mult |-> cr_luma_mult.val,
              cr_offset |-> cr_offset.val,
              chroma_scaling_from_luma |-> chroma_scaling_from_luma.val > 0,
              grain_scale_shift |-> grain_scale_shift.val,
              overlap_flag |-> overlap_flag.val > 0,
              clip_to_restricted_range |-> clip_to_restricted_range.val > 0]))

\* film_grain_params, continued from coeffs_cb
film_grain_params_3(b, r, film_grain_allowed, frame_type, monochrome, subsampling, apply_grain, grain_seed, update_grain, film_grain_params_ref_idx, points_y, chroma_scaling_from_luma, num_cb_points, points_cb, num_cr_points, points_cr, ar_coeff_lag, num_pos_chroma, coeffs_y) ==
    LET coeffs_cb == IF chroma_scaling_from_luma.val > 0 \/ num_cb_points.val > 0
                     THEN ar_coeffs(b, coeffs_y, num_pos_chroma, NUM_UV_COEFFS, <<>>)
                     ELSE WithVal(coeffs_y, <<0>>)
        coeffs_cr == IF chroma_scaling_from_luma.val > 0 \/ num_cr_points.val > 0
                     THEN ar_coeffs(b, coeffs_cb, num_pos_chroma, NUM_UV_COEFFS, <<>>)
                     ELSE WithVal(coeffs_cb, <<0>>)
        ar_coeff_shift_minus_6 == take(b, coeffs_cr, 2)
        grain_scale_shift == take(b, ar_coeff_shift_minus_6, 2)
        cb_mult == take_if(b, grain_scale_shift, num_cb_points.val > 0, 8, 0)
        cb_luma_mult == take_if(b, cb_mult, num_cb_points.val > 0, 8, 0)
        cb_offset == take_if(b, cb_luma_mult, num_cb_points.val > 0, 9, 0)
        cr_mult == take_if(b, cb_offset, num_cr_points.val > 0, 8, 0)
        cr_luma_mult == take_if(b, cr_mult, num_cr_points.val > 0, 8, 0)
        cr_offset == take_if(b, cr_luma_mult, num_cr_points.val > 0, 9, 0)
        overlap_flag == take(b, cr_offset, 1)
        clip_to_restricted_range == take(b, overlap_flag, 1)
        fin == clip_to_restricted_range
    IN Sequenced(<<cb_mult, cr_mult, overlap_flag, clip_to_restricted_range>>,
                 film_grain_params_4(b, r, film_grain_allowed, frame_type, monochrome,
                                     subsampling, apply_grain, grain_seed, update_grain,
                                     film_grain_params_ref_idx, points_y,
                                     chroma_scaling_from_luma, points_cb, points_cr,
                                     ar_coeff_lag, coeffs_y, coeffs_cb, coeffs_cr,
                                     ar_coeff_shift_minus_6, grain_scale_shift, cb_mult,
                                     cb_luma_mult, cb_offset, cr_mult, cr_luma_mult,
                                     cr_offset, overlap_flag, clip_to_restricted_range, fin))

\* film_grain_params, continued from num_cr_points
film_grain_params_2(b, r, film_grain_allowed, frame_type, monochrome, subsampling, apply_grain, grain_seed, update_grain, film_grain_params_ref_idx, num_y_points, points_y, chroma_scaling_from_luma, no_chroma_points, num_cb_points, points_cb) ==
    LET num_cr_points == take_if(b, points_cb, ~no_chroma_points, 4, 0)
        points_cr == IF no_chroma_points THEN WithVal(num_cr_points, <<>>)
                     ELSE scaling_points(b, num_cr_points, num_cr_points.val,
                                         NUM_UV_POINTS, <<>>)
        grain_scaling_minus_8 == take(b, points_cr, 2)
        ar_coeff_lag == take(b, grain_scaling_minus_8, 2)
        num_pos_luma == 2 * ar_coeff_lag.val * (ar_coeff_lag.val + 1)
        num_pos_chroma == IF num_y_points.val > 0 THEN num_pos_luma + 1 ELSE num_pos_luma
        coeffs_y == IF num_y_points.val > 0
                    THEN ar_coeffs(b, ar_coeff_lag, num_pos_luma, NUM_Y_COEFFS, <<>>)
                    ELSE WithVal(ar_coeff_lag, <<>>)
    IN Sequenced(<<ar_coeff_lag>>,
                 film_grain_params_3(b, r, film_grain_allowed, frame_type, monochrome,
                                     subsampling, apply_grain, grain_seed, update_grain,
                                     film_grain_params_ref_idx, points_y,
                                     chroma_scaling_from_luma, num_cb_points, points_cb,
                                     num_cr_points, points_cr, ar_coeff_lag,
                                     num_pos_chroma, coeffs_y))

\* film_grain_params; val is the FilmGrainHeader
film_grain_params(b, r, film_grain_allowed, frame_type, monochrome, subsampling) ==
    LET apply_grain == take(b, r, 1)
        grain_seed == take(b, apply_grain, 16)
        update_grain == take_if(b, grain_seed, frame_type = Inter, 1, 1)
        film_grain_params_ref_idx == take(b, update_grain, 3)
        num_y_points == take(b, update_grain, 4)
        points_y == scaling_points(b, num_y_points, num_y_points.val, NUM_Y_POINTS, <<>>)
        chroma_scaling_from_luma == take_if(b, points_y, ~monochrome, 1, 0)
        no_chroma_points == \/ monochrome
                            \/ chroma_scaling_from_luma.val > 0
                            \/ (subsampling[1] = 1 /\ subsampling[2] = 1
                                /\ num_y_points.val = 0)
        num_cb_points == take_if(b, chroma_scaling_from_luma, ~no_chroma_points, 4, 0)
        points_cb == IF no_chroma_points THEN WithVal(num_cb_points, <<>>)
                     ELSE scaling_points(b, num_cb_points, num_cb_points.val,
                                         NUM_UV_POINTS, <<>>)
    IN Sequenced(<<update_grain, points_y, num_cb_points>>,
                 film_grain_params_2(b, r, film_grain_allowed, frame_type, monochrome,
                                     subsampling, apply_grain, grain_seed, update_grain,
                                     film_grain_params_ref_idx, num_y_points, points_y,
                                     chroma_scaling_from_luma, no_chroma_points,
                                     num_cb_points, points_cb))

(***************************************************************************)
(* frame.rs: uncompressed_header. `self` is the record of the parser's     *)
(* fields; the operators that change the parser return the record they     *)
(* leave behind, whatever the outcome of the parse.                        *)
(***************************************************************************)
\* the loop over the reference slots reading ref_order_hint[i]; the result is
\* [r, self]
RECURSIVE ref_order_hint_loop(_, _, _, _, _)
ref_order_hint_loop(b, r, i, order_hint_bits, self) ==
    IF r.st # "ok" \/ i = NUM_REF_FRAMES THEN [r |-> r, self |-> self]
    ELSE LET cur_ref_order_hint == take(b, r, order_hint_bits)
             old == self.ref_order_hint[i + 1]
             next == [self EXCEPT !.big_ref_order_hint[i + 1] = old,
                                  !.ref_order_hint[i + 1] = cur_ref_order_hint.val,
                                  !.big_ref_valid[i + 1] =
                                      IF cur_ref_order_hint.val # old THEN FALSE ELSE @]
         IN IF cur_ref_order_hint.st # "ok" THEN [r |-> cur_ref_order_hint, self |-> self]
            ELSE ref_order_hint_loop(b, cur_ref_order_hint, i + 1, order_hint_bits, next)

\* `for ref_frame_idx in &mut self.ref_frame_idx`; the result is [r, self]
RECURSIVE ref_frame_idx_loop(_, _, _, _, _, _, _)
ref_frame_idx_loop(b, r, i, frame_refs_short_signaling, frame_id_numbers_present, n, self) ==
    IF r.st # "ok" \/ i = REFS_PER_FRAME THEN [r |-> r, self |-> self]
    ELSE IF frame_refs_short_signaling
    THEN ref_frame_idx_loop(b, r, i + 1, frame_refs_short_signaling,
                            frame_id_numbers_present, n,
                            [self EXCEPT !.ref_frame_idx[i + 1] = 0])
    ELSE LET this_ref_frame_idx == take(b, r, 3)
             next == [self EXCEPT !.ref_frame_idx[i + 1] = this_ref_frame_idx.val]
             delta_frame_id_minus_1 ==
                 IF frame_id_numbers_present THEN skip(b, this_ref_frame_idx, n)
                 ELSE this_ref_frame_idx
         IN IF this_ref_frame_idx.st # "ok" THEN [r |-> this_ref_frame_idx, self |-> self]
            ELSE ref_frame_idx_loop(b, delta_frame_id_minus_1, i + 1,
                                    frame_refs_short_signaling, frame_id_numbers_present,
                                    n, next)

\* the reset of the reference state by a shown key frame
key_frame_reset(self) ==
    [self EXCEPT !.big_ref_valid = [i \in 1 .. NUM_REF_FRAMES |-> FALSE],
                 !.big_ref_order_hint = [i \in 1 .. NUM_REF_FRAMES |-> 0],
                 !.big_order_hints = [i \in 1 .. Last + REFS_PER_FRAME |->
                                         IF i > Last THEN 0 ELSE @[i]]]

\* `big_order_hints[Last + i] = big_ref_order_hint[ref_frame_idx[i]]`
set_order_hints(self) ==
    [self EXCEPT !.big_order_hints = [i \in 1 .. Last + REFS_PER_FRAME |->
        IF i > Last THEN self.big_ref_order_hint[self.ref_frame_idx[i - Last] + 1]
        ELSE @[i]]]

\* a header whose end leaves the reference slots as they are
refresh_refs_none(self, refresh_frame_flags, order_hint) == self

\* the loop at the end of uncompressed_header over refresh_frame_flags
refresh_refs(self, refresh_frame_flags, order_hint) ==
    [self EXCEPT
        !.big_ref_valid = [i \in 1 .. NUM_REF_FRAMES |->
            IF (refresh_frame_flags \div Pow2(i - 1)) % 2 = 1 THEN TRUE ELSE @[i]],
        !.big_ref_order_hint = [i \in 1 .. NUM_REF_FRAMES |->
            IF (refresh_frame_flags \div Pow2(i - 1)) % 2 = 1 THEN order_hint ELSE @[i]]]

\* whether an OBU with these headers is in the operating point op_pt_idc
in_operating_point(op_pt_idc, obu_headers) ==
    LET temporal_id == IF obu_headers.extension = <<>> THEN 0
                       ELSE obu_headers.extension[1].temporal_id
        spatial_id == IF obu_headers.extension = <<>> THEN 0
                      ELSE obu_headers.extension[1].spatial_id
        in_temporal_layer == (op_pt_idc \div Pow2(temporal_id)) % 2 > 0
        in_spatial_layer == (op_pt_idc \div Pow2(spatial_id + 8)) % 2 > 0
    IN op_pt_idc = 0 \/ (in_temporal_layer /\ in_spatial_layer)

\* uncompressed_header_body, concluded
uncompressed_header_body_17(self, b, r0, obu_headers, start, reduced, show_existing_frame, existing, frame_type, show_frame, error_resilient_mode, frame_size_override_flag, order_hint, refresh_frame_flags, self_sized, frame_size_v, tiles, coded_lossless, all_losslesss, grain) ==
    IF start.st # "ok" THEN [r |-> start, self |-> self, fields |-> <<>>]
    ELSE IF ~reduced /\ show_existing_frame.st # "ok"
    THEN [r |-> show_existing_frame, self |-> self, fields |-> <<>>]
    ELSE IF ~reduced /\ show_existing_frame.val > 0
    THEN [r |-> IF existing.st # "ok" THEN existing
                ELSE WithVal(existing, [show_frame |-> TRUE, show_existing_frame |-> TRUE,
                          film_grain_params |-> CopyRefFrame,
                          tile_info |-> self.previous_frame_header[1].tile_info]),
          self |-> self, fields |-> <<>>]
    ELSE IF grain.st # "ok" THEN [r |-> grain, self |-> self_sized, fields |-> <<>>]
    ELSE [r |-> WithVal(grain, [show_frame |-> show_frame, show_existing_frame |-> FALSE,
                     film_grain_params |-> grain.val, tile_info |-> tiles.val]),
          self |-> refresh_refs(self_sized, refresh_frame_flags.val, order_hint.val),
          fields |-> <<[frame_type |-> frame_type, show_frame |-> show_frame,
                        error_resilient_mode |-> error_resilient_mode,
                        order_hint |-> order_hint.val,
                        refresh_frame_flags |-> refresh_frame_flags.val,
                        frame_size_override_flag |-> frame_size_override_flag,
                        frame_width |-> frame_size_v.width,
                        coded_lossless |-> coded_lossless,
                        all_lossless |-> all_losslesss]>>]

\* uncompressed_header_body, continued from grain
uncompressed_header_body_16(self, b, r0, obu_headers, start, sequence_header, reduced, show_existing_frame, existing, frame_type, show_frame, error_resilient_mode, frame_size_override_flag, order_hint, refresh_frame_flags, self_sized, frame_size_v, tiles, num_planes, coded_lossless, all_losslesss, global_motion) ==
        \* grain.rs declares film_grain_params(input, film_grain_allowed, frame_type,
        \* monochrome, subsampling); the flag it is given here is the call's first
        \* argument, sequence_header.film_grain_params_present
    LET grain == film_grain_params(b, global_motion,
                                   sequence_header.film_grain_params_present, frame_type,
                                   num_planes = 1, sequence_header.color_config.subsampling)
    IN Sequenced(<<grain>>,
                 uncompressed_header_body_17(self, b, r0, obu_headers, start, reduced,
                                             show_existing_frame, existing, frame_type,
                                             show_frame, error_resilient_mode,
                                             frame_size_override_flag, order_hint,
                                             refresh_frame_flags, self_sized, frame_size_v,
                                             tiles, coded_lossless, all_losslesss, grain))

\* uncompressed_header_body, continued from allow_warped_motion
uncompressed_header_body_15(self, b, r0, obu_headers, start, sequence_header, reduced, show_existing_frame, existing, frame_type, show_frame, error_resilient_mode, frame_size_override_flag, order_hint, refresh_frame_flags, intra, self_sized, frame_size_v, tiles, num_planes, coded_lossless, all_losslesss, skip_mode) ==
    LET allow_warped_motion ==
            take_if(b, skip_mode,
                    ~(intra \/ error_resilient_mode \/ ~sequence_header.enable_warped_motion),
                    1, 0)
        reduced_tx_set == take(b, allow_warped_motion, 1)
        global_motion == global_motion_params(b, reduced_tx_set, intra)
    IN Sequenced(<<global_motion>>,
                 uncompressed_header_body_16(self, b, r0, obu_headers, start,
                                             sequence_header, reduced, show_existing_frame,
                                             existing, frame_type, show_frame,
                                             error_resilient_mode,
                                             frame_size_override_flag, order_hint,
                                             refresh_frame_flags, self_sized, frame_size_v,
                                             tiles, num_planes, coded_lossless,
                                             all_losslesss, global_motion))

\* uncompressed_header_body, continued from cdef
uncompressed_header_body_14(self, b, r0, obu_headers, start, sequence_header, reduced, order_hint_bits, show_existing_frame, existing, frame_type, show_frame, error_resilient_mode, frame_size_override_flag, order_hint, refresh_frame_flags, intra, self_sized, frame_size_v, allow_intrabc, tiles, num_planes, coded_lossless, all_losslesss, loop_filter) ==
    LET cdef == cdef_params(b, loop_filter, coded_lossless, allow_intrabc,
                            sequence_header.enable_cdef, num_planes)
        lr == lr_params(b, cdef, all_losslesss, allow_intrabc,
                        sequence_header.enable_restoration,
                        sequence_header.use_128x128_superblock, num_planes,
                        sequence_header.color_config.subsampling)
        tx_mode == read_tx_mode(b, lr, coded_lossless)
        reference_select == frame_reference_mode(b, tx_mode, intra)
        skip_mode == skip_mode_params(b, reference_select, intra, reference_select.val > 0,
                                      order_hint_bits, order_hint.val,
                                      self_sized.big_ref_order_hint, self_sized.ref_frame_idx)
    IN Sequenced(<<tx_mode, skip_mode>>,
                 uncompressed_header_body_15(self, b, r0, obu_headers, start,
                                             sequence_header, reduced, show_existing_frame,
                                             existing, frame_type, show_frame,
                                             error_resilient_mode,
                                             frame_size_override_flag, order_hint,
                                             refresh_frame_flags, intra, self_sized,
                                             frame_size_v, tiles, num_planes,
                                             coded_lossless, all_losslesss, skip_mode))

\* uncompressed_header_body, continued from loop_filter
uncompressed_header_body_13(self, b, r0, obu_headers, start, sequence_header, reduced, order_hint_bits, show_existing_frame, existing, frame_type, show_frame, error_resilient_mode, frame_size_override_flag, order_hint, refresh_frame_flags, intra, self_sized, frame_size_v, allow_intrabc, tiles, num_planes, delta_lf, coded_lossless, all_losslesss) ==
    LET loop_filter == IF delta_lf.st = "ok"
                       THEN loop_filter_params(b, delta_lf, coded_lossless, allow_intrabc,
                                               num_planes)
                       ELSE delta_lf
    IN uncompressed_header_body_14(self, b, r0, obu_headers, start, sequence_header,
                                   reduced, order_hint_bits, show_existing_frame, existing,
                                   frame_type, show_frame, error_resilient_mode,
                                   frame_size_override_flag, order_hint,
                                   refresh_frame_flags, intra, self_sized, frame_size_v,
                                   allow_intrabc, tiles, num_planes, coded_lossless,
                                   all_losslesss, loop_filter)

\* uncompressed_header_body, continued from delta_q_present
uncompressed_header_body_12(self, b, r0, obu_headers, start, sequence_header, reduced, order_hint_bits, show_existing_frame, existing, frame_type, show_frame, error_resilient_mode, frame_size_override_flag, order_hint, refresh_frame_flags, intra, self_sized, frame_size_v, upscaled_size, allow_intrabc, tiles, num_planes, q_params, segmentation_data) ==
    LET delta_q_present == IF segmentation_data.st = "ok"
                           THEN delta_q_params(b, segmentation_data, q_params.val.base_q_idx)
                           ELSE segmentation_data
        delta_lf == delta_lf_params(b, delta_q_present, delta_q_present.val > 0,
                                    allow_intrabc)
        coded_lossless ==
            \A segment_id \in 0 .. MAX_SEGMENTS - 1 :
                /\ get_qindex(TRUE, segment_id, q_params.val.base_q_idx, <<>>,
                              segmentation_data.val) = 0
                /\ q_params.val.deltaq_y_dc = 0
                /\ q_params.val.deltaq_u_ac = 0
                /\ q_params.val.deltaq_u_dc = 0
                /\ q_params.val.deltaq_v_ac = 0
                /\ q_params.val.deltaq_v_dc = 0
        all_losslesss == coded_lossless /\ frame_size_v.width = upscaled_size.width
    IN Sequenced(<<delta_lf>>,
                 uncompressed_header_body_13(self, b, r0, obu_headers, start,
                                             sequence_header, reduced, order_hint_bits,
                                             show_existing_frame, existing, frame_type,
                                             show_frame, error_resilient_mode,
                                             frame_size_override_flag, order_hint,
                                             refresh_frame_flags, intra, self_sized,
                                             frame_size_v, allow_intrabc, tiles,
                                             num_planes, delta_lf, coded_lossless,
                                             all_losslesss))

\* uncompressed_header_body, continued from segmentation_data
uncompressed_header_body_11(self, b, r0, obu_headers, start, sequence_header, reduced, order_hint_bits, show_existing_frame, existing, frame_type, show_frame, error_resilient_mode, frame_size_override_flag, order_hint, primary_ref_frame, refresh_frame_flags, intra, self_sized, frame_size_v, upscaled_size, allow_intrabc, tiles, num_planes, q_params) ==
    LET segmentation_data == segmentation_params(b, q_params, primary_ref_frame.val)
    IN Sequenced(<<segmentation_data>>,
                 uncompressed_header_body_12(self, b, r0, obu_headers, start,
                                             sequence_header, reduced, order_hint_bits,
                                             show_existing_frame, existing, frame_type,
                                             show_frame, error_resilient_mode,
                                             frame_size_override_flag, order_hint,
                                             refresh_frame_flags, intra, self_sized,
                                             frame_size_v, upscaled_size, allow_intrabc,
                                             tiles, num_planes, q_params, segmentation_data))

\* uncompressed_header_body, continued from q_params
uncompressed_header_body_10(self, b, r0, obu_headers, start, sequence_header, reduced, order_hint_bits, show_existing_frame, existing, frame_type, show_frame, error_resilient_mode, frame_size_override_flag, order_hint, primary_ref_frame, refresh_frame_flags, intra, self_sized, frame_size_v, upscaled_size, allow_intrabc, tiles, num_planes) ==
    LET q_params == quantization_params(b, tiles, num_planes,
                                        sequence_header.color_config.separate_uv_delta_q)
    IN Sequenced(<<q_params>>,
                 uncompressed_header_body_11(self, b, r0, obu_headers, start,
                                             sequence_header, reduced, order_hint_bits,
                                             show_existing_frame, existing, frame_type,
                                             show_frame, error_resilient_mode,
                                             frame_size_override_flag, order_hint,
                                             primary_ref_frame, refresh_frame_flags, intra,
                                             self_sized, frame_size_v, upscaled_size,
                                             allow_intrabc, tiles, num_planes, q_params))

\* uncompressed_header_body, continued from num_planes
uncompressed_header_body_9(self, b, r0, obu_headers, start, sequence_header, reduced, order_hint_bits, show_existing_frame, existing, frame_type, show_frame, error_resilient_mode, frame_size_override_flag, order_hint, primary_ref_frame, refresh_frame_flags, intra, self_sized, frame_size_v, upscaled_size, allow_intrabc, tiles) ==
    LET num_planes == sequence_header.color_config.num_planes
    IN uncompressed_header_body_10(self, b, r0, obu_headers, start, sequence_header,
                                   reduced, order_hint_bits, show_existing_frame, existing,
                                   frame_type, show_frame, error_resilient_mode,
                                   frame_size_override_flag, order_hint, primary_ref_frame,
                                   refresh_frame_flags, intra, self_sized, frame_size_v,
                                   upscaled_size, allow_intrabc, tiles, num_planes)

\* uncompressed_header_body, continued from tiles
uncompressed_header_body_8(self, b, r0, obu_headers, start, sequence_header, reduced, order_hint_bits, show_existing_frame, existing, frame_type, show_frame, error_resilient_mode, frame_size_override_flag, order_hint, primary_ref_frame, refresh_frame_flags, intra, self_sized, frame_size_v, upscaled_size, allow_intrabc, image, disable_frame_end_update_cdf) ==
    LET tiles == IF disable_frame_end_update_cdf.st = "ok"
                 THEN tile_info(b, disable_frame_end_update_cdf,
                                sequence_header.use_128x128_superblock,
                                image.mi_cols, image.mi_rows)
                 ELSE disable_frame_end_update_cdf
    IN uncompressed_header_body_9(self, b, r0, obu_headers, start, sequence_header,
                                  reduced, order_hint_bits, show_existing_frame, existing,
                                  frame_type, show_frame, error_resilient_mode,
                                  frame_size_override_flag, order_hint, primary_ref_frame,
                                  refresh_frame_flags, intra, self_sized, frame_size_v,
                                  upscaled_size, allow_intrabc, tiles)

\* uncompressed_header_body, continued from p_render_size
uncompressed_header_body_7(self, b, r0, obu_headers, start, sequence_header, reduced, order_hint_bits, show_existing_frame, existing, frame_type, show_frame, error_resilient_mode, disable_cdf_update, frame_size_override_flag, order_hint, primary_ref_frame, refresh_frame_flags, hints, i_frame_size, allow_intrabc_r, idx, with_refs, p_with_refs, p_frame_size) ==
    LET p_render_size == IF p_frame_size.st = "ok"
                         THEN render_size(b, p_frame_size, p_frame_size.val, p_frame_size.val)
                         ELSE p_frame_size
        p_sizes == IF with_refs THEN p_with_refs ELSE p_render_size
        allow_high_precision_mv == take_if(b, p_sizes, sequence_header.force_integer_mv # 1,
                                           1, 0)
        interpolation_filter == read_interpolation_filter(b, allow_high_precision_mv)
        is_motion_mode_switchable == take(b, interpolation_filter, 1)
        use_ref_frame_mvs ==
            take_if(b, is_motion_mode_switchable,
                    ~(error_resilient_mode \/ ~sequence_header.enable_ref_frame_mvs), 1, 0)
        self_hints == IF use_ref_frame_mvs.st = "ok" THEN set_order_hints(idx.self)
                      ELSE idx.self
        \* both branches join
        intra == is_intra(frame_type)
        sized == IF intra THEN allow_intrabc_r ELSE use_ref_frame_mvs
        self_sized == IF intra THEN hints.self ELSE self_hints
        frame_size_v == IF intra THEN i_frame_size.val
                        ELSE IF with_refs THEN p_with_refs.val.frame_size
                        ELSE p_frame_size.val
        upscaled_size == IF intra THEN i_frame_size.val
                         ELSE IF with_refs THEN p_with_refs.val.upscaled_size
                         ELSE p_frame_size.val
        allow_intrabc == intra /\ allow_intrabc_r.val > 0
        image == compute_image_size(frame_size_v)
        disable_frame_end_update_cdf ==
            take_if(b, sized, ~(reduced \/ disable_cdf_update.val > 0), 1, 1)
    IN Sequenced(<<is_motion_mode_switchable, disable_frame_end_update_cdf>>,
                 uncompressed_header_body_8(self, b, r0, obu_headers, start,
                                            sequence_header, reduced, order_hint_bits,
                                            show_existing_frame, existing, frame_type,
                                            show_frame, error_resilient_mode,
                                            frame_size_override_flag, order_hint,
                                            primary_ref_frame, refresh_frame_flags, intra,
                                            self_sized, frame_size_v, upscaled_size,
                                            allow_intrabc, image,
                                            disable_frame_end_update_cdf))

\* uncompressed_header_body, continued from p_frame_size
uncompressed_header_body_6(self, b, r0, obu_headers, start, sequence_header, reduced, order_hint_bits, show_existing_frame, existing, frame_type, show_frame, error_resilient_mode, disable_cdf_update, frame_size_override_flag, order_hint, primary_ref_frame, refresh_frame_flags, hints, max_frame_size, frame_width_bits, frame_height_bits, i_frame_size, allow_intrabc_r, idx, with_refs, p_with_refs) ==
    LET p_frame_size == frame_size(b, idx.r, frame_size_override_flag,
                                   sequence_header.enable_superres, frame_width_bits,
                                   frame_height_bits, max_frame_size)
    IN Sequenced(<<p_frame_size>>,
                 uncompressed_header_body_7(self, b, r0, obu_headers, start,
                                            sequence_header, reduced, order_hint_bits,
                                            show_existing_frame, existing, frame_type,
                                            show_frame, error_resilient_mode,
                                            disable_cdf_update, frame_size_override_flag,
                                            order_hint, primary_ref_frame,
                                            refresh_frame_flags, hints, i_frame_size,
                                            allow_intrabc_r, idx, with_refs, p_with_refs,
                                            p_frame_size))

\* uncompressed_header_body, continued from p_with_refs
uncompressed_header_body_5(self, b, r0, obu_headers, start, sequence_header, reduced, order_hint_bits, show_existing_frame, existing, frame_type, show_frame, error_resilient_mode, disable_cdf_update, frame_size_override_flag, order_hint, primary_ref_frame, refresh_frame_flags, hints, max_frame_size, frame_width_bits, frame_height_bits, i_frame_size, allow_intrabc_r, idx, with_refs) ==
    LET p_with_refs == frame_size_with_refs(b, idx.r, sequence_header.enable_superres,
                                            frame_size_override_flag, frame_width_bits,
                                            frame_height_bits, max_frame_size,
                                            max_frame_size, max_frame_size)
    IN Sequenced(<<p_with_refs>>,
                 uncompressed_header_body_6(self, b, r0, obu_headers, start,
                                            sequence_header, reduced, order_hint_bits,
                                            show_existing_frame, existing, frame_type,
                                            show_frame, error_resilient_mode,
                                            disable_cdf_update, frame_size_override_flag,
                                            order_hint, primary_ref_frame,
                                            refresh_frame_flags, hints, max_frame_size,
                                            frame_width_bits, frame_height_bits,
                                            i_frame_size, allow_intrabc_r, idx, with_refs,
                                            p_with_refs))

\* uncompressed_header_body, continued from i_render_size
uncompressed_header_body_4(self, b, r0, obu_headers, start, sequence_header, reduced, has_ids, order_hint_bits, show_existing_frame, existing, frame_type, show_frame, error_resilient_mode, disable_cdf_update, allow_screen_content_tools, frame_size_override_flag, order_hint, primary_ref_frame, refresh_frame_flags, hints, max_frame_size, frame_width_bits, frame_height_bits, i_frame_size) ==
    LET i_render_size == IF i_frame_size.st = "ok"
                         THEN render_size(b, i_frame_size, i_frame_size.val, i_frame_size.val)
                         ELSE i_frame_size
        allow_intrabc_r == take_if(b, i_render_size, allow_screen_content_tools.val > 0, 1, 0)
        \* the inter branch
        frame_refs_short_signaling ==
            take_if(b, hints.r, enable_order_hint(sequence_header), 1, 0)
        last_frame_idx == take_if(b, frame_refs_short_signaling,
                                  frame_refs_short_signaling.val > 0, 3, 0)
        gold_frame_idx == take_if(b, last_frame_idx,
                                  frame_refs_short_signaling.val > 0, 3, 0)
        idx == ref_frame_idx_loop(b, gold_frame_idx, 0, frame_refs_short_signaling.val > 0,
                                  has_ids, sequence_header.delta_frame_id_len_minus_2 + 2,
                                  hints.self)
        with_refs == frame_size_override_flag /\ ~error_resilient_mode
    IN Sequenced(<<last_frame_idx, gold_frame_idx>>,
                 uncompressed_header_body_5(self, b, r0, obu_headers, start,
                                            sequence_header, reduced, order_hint_bits,
                                            show_existing_frame, existing, frame_type,
                                            show_frame, error_resilient_mode,
                                            disable_cdf_update, frame_size_override_flag,
                                            order_hint, primary_ref_frame,
                                            refresh_frame_flags, hints, max_frame_size,
                                            frame_width_bits, frame_height_bits,
                                            i_frame_size, allow_intrabc_r, idx, with_refs))

\* uncompressed_header_body, continued from i_frame_size
uncompressed_header_body_3(self, b, r0, obu_headers, start, sequence_header, reduced, has_ids, order_hint_bits, show_existing_frame, existing, frame_type, show_frame, error_resilient_mode, disable_cdf_update, allow_screen_content_tools, frame_size_override_flag, order_hint, primary_ref_frame, refresh_frame_flags, hints, max_frame_size, frame_width_bits, frame_height_bits) ==
        \* the intra branch
    LET i_frame_size == frame_size(b, hints.r, frame_size_override_flag,
                                   sequence_header.enable_superres, frame_width_bits,
                                   frame_height_bits, max_frame_size)
    IN Sequenced(<<i_frame_size>>,
                 uncompressed_header_body_4(self, b, r0, obu_headers, start,
                                            sequence_header, reduced, has_ids,
                                            order_hint_bits, show_existing_frame, existing,
                                            frame_type, show_frame, error_resilient_mode,
                                            disable_cdf_update, allow_screen_content_tools,
                                            frame_size_override_flag, order_hint,
                                            primary_ref_frame, refresh_frame_flags, hints,
                                            max_frame_size, frame_width_bits,
                                            frame_height_bits, i_frame_size))

\* uncompressed_header_body, continued from current_frame_id
uncompressed_header_body_2(self, b, r0, obu_headers, start, sequence_header, reduced, id_len, has_ids, dmi, order_hint_bits, show_existing_frame, existing, frame_type, show_frame, forced_resilient, error_resilient_mode, self_reset, disable_cdf_update, allow_screen_content_tools, force_integer_mv) ==
    LET current_frame_id == IF has_ids THEN skip(b, force_integer_mv, id_len)
                            ELSE force_integer_mv
        frame_size_override_flag_r ==
            take_if(b, current_frame_id, frame_type # Switch /\ ~reduced, 1,
                    IF frame_type = Switch THEN 1 ELSE 0)
        frame_size_override_flag == frame_size_override_flag_r.val > 0
        order_hint == take(b, frame_size_override_flag_r, order_hint_bits)
        primary_ref_frame == take_if(b, order_hint,
                                     ~(is_intra(frame_type) \/ error_resilient_mode), 3,
                                     PRIMARY_REF_NONE)
        buffer_removal_time_present_flag == take(b, primary_ref_frame, 1)
        any_op == \E op_num \in 0 .. sequence_header.operating_points_cnt_minus_1 :
                     /\ sequence_header.decoder_model_present_for_op[op_num + 1]
                     /\ in_operating_point(sequence_header.operating_point_idc[op_num + 1],
                                           obu_headers)
        \* the flag bit is consumed only together with a buffer_removal_time
        removal == IF dmi = <<>> THEN primary_ref_frame
                   ELSE IF buffer_removal_time_present_flag.st # "ok"
                   THEN buffer_removal_time_present_flag
                   ELSE IF buffer_removal_time_present_flag.val > 0 /\ any_op
                   THEN skip(b, buffer_removal_time_present_flag,
                             dmi[1].buffer_removal_time_length_minus_1 + 1)
                   ELSE primary_ref_frame
        refresh_frame_flags == take_if(b, removal, ~forced_resilient, 8, REFRESH_ALL_FRAMES)
        hints == IF (~is_intra(frame_type) \/ refresh_frame_flags.val # REFRESH_ALL_FRAMES)
                    /\ error_resilient_mode /\ enable_order_hint(sequence_header)
                 THEN ref_order_hint_loop(b, refresh_frame_flags, 0, order_hint_bits,
                                          self_reset)
                 ELSE [r |-> refresh_frame_flags, self |-> self_reset]
        max_frame_size == [width |-> sequence_header.max_frame_width_minus_1 + 1,
                           height |-> sequence_header.max_frame_height_minus_1 + 1]
        frame_width_bits == sequence_header.frame_width_bits_minus_1 + 1
        frame_height_bits == sequence_header.frame_height_bits_minus_1 + 1
    IN Sequenced(<<primary_ref_frame, refresh_frame_flags>>,
                 uncompressed_header_body_3(self, b, r0, obu_headers, start,
                                            sequence_header, reduced, has_ids,
                                            order_hint_bits, show_existing_frame, existing,
                                            frame_type, show_frame, error_resilient_mode,
                                            disable_cdf_update, allow_screen_content_tools,
                                            frame_size_override_flag, order_hint,
                                            primary_ref_frame, refresh_frame_flags, hints,
                                            max_frame_size, frame_width_bits,
                                            frame_height_bits))

\* uncompressed_header once the sequence header is known to be there, reading
\* from reader r0 over the bytes b; the result is [r, self, fields]: r.val is
\* the FrameHeader when r.st = "ok", and fields holds the locals frame_type,
\* show_frame, error_resilient_mode, order_hint and refresh_frame_flags of a
\* header read to its end
uncompressed_header_body(self, b, r0, obu_headers) ==
    LET start == r0
        sequence_header == self.sequence_header[1]
        reduced == sequence_header.reduced_still_picture_header
        id_len == sequence_header.additional_frame_id_len_minus_1
                  + sequence_header.delta_frame_id_len_minus_2 + 3
        has_ids == sequence_header.frame_id_numbers_present
        dmi == sequence_header.decoder_model_info
        order_hint_bits == sequence_header.order_hint_bits
        \* show_existing_frame
        show_existing_frame == take(b, start, 1)
        frame_to_show_map_idx == take(b, show_existing_frame, 3)
        display_frame_id == IF has_ids THEN skip(b, frame_to_show_map_idx, id_len)
                            ELSE frame_to_show_map_idx
        existing == panic_if(display_frame_id, self.previous_frame_header = <<>>)
        \* frame_type .. error_resilient_mode
        frame_type_r == take(b, show_existing_frame, 2)
        show_frame_r == take(b, frame_type_r, 1)
        frame_type == IF reduced THEN Inter ELSE frame_type_r.val
        show_frame == IF reduced THEN TRUE ELSE show_frame_r.val > 0
        equal_picture_interval == sequence_header.timing_info # <<>>
                                  /\ sequence_header.timing_info[1].equal_picture_interval
        temporal_point_info ==
            IF show_frame /\ dmi # <<>> /\ ~equal_picture_interval
            THEN skip(b, show_frame_r, dmi[1].frame_presentation_time_length_minus_1 + 1)
            ELSE show_frame_r
        showable_frame_r == take_if(b, temporal_point_info, ~show_frame, 1,
                                    IF frame_type # Key THEN 1 ELSE 0)
        forced_resilient == frame_type = Switch \/ (frame_type = Key /\ show_frame)
        error_resilient_mode_r == take_if(b, showable_frame_r, ~forced_resilient, 1, 1)
        head == IF reduced THEN start ELSE error_resilient_mode_r
        showable_frame == IF reduced THEN TRUE ELSE showable_frame_r.val > 0
        error_resilient_mode == IF reduced THEN FALSE ELSE error_resilient_mode_r.val > 0
        self_reset == IF head.st = "ok" /\ frame_type = Key /\ show_frame
                      THEN key_frame_reset(self) ELSE self
        \* disable_cdf_update .. refresh_frame_flags
        disable_cdf_update == take(b, head, 1)
        allow_screen_content_tools ==
            take_if(b, disable_cdf_update,
                    sequence_header.force_screen_content_tools = SELECT_SCREEN_CONTENT_TOOLS,
                    1, IF sequence_header.force_screen_content_tools = 1 THEN 1 ELSE 0)
        force_integer_mv ==
            take_if(b, allow_screen_content_tools,
                    allow_screen_content_tools.val > 0
                        /\ sequence_header.force_integer_mv = SELECT_INTEGER_MV, 1, 0)
    IN Sequenced(<<existing, showable_frame_r, allow_screen_content_tools, force_integer_mv>>,
                 uncompressed_header_body_2(self, b, r0, obu_headers, start,
                                            sequence_header, reduced, id_len, has_ids, dmi,
                                            order_hint_bits, show_existing_frame, existing,
                                            frame_type, show_frame, forced_resilient,
                                            error_resilient_mode, self_reset,
                                            disable_cdf_update, allow_screen_content_tools,
                                            force_integer_mv))

\* uncompressed_header: `self.sequence_header.as_ref().unwrap()` comes first
uncompressed_header(self, b, r0, obu_headers) ==
    IF self.sequence_header = <<>>
    THEN [r |-> Failed(r0, "panic"), self |-> self, fields |-> <<>>]
    ELSE uncompressed_header_body(self, b, r0, obu_headers)

\* what parse_frame_header makes of u, the outcome of uncompressed_header
frame_header_result(u) ==
    IF u.r.st # "ok"
    THEN [st |-> u.r.st, consumed |-> BytesConsumed(u.r.pos), header |-> <<>>,
          self |-> u.self]
    ELSE [st |-> "ok", consumed |-> BytesConsumed(u.r.pos),
          header |-> IF u.r.val.show_frame THEN <<u.r.val>> ELSE <<>>,
          self |-> [u.self EXCEPT !.seen_frame_header = ~u.r.val.show_existing_frame]]

\* parse_frame_header; the result is [st, consumed, header, self]: header is
\* the Option<FrameHeader> returned, consumed the bytes bits() took
parse_frame_header(self, input, obu_header) ==
    IF self.seen_frame_header
    THEN [st |-> "ok", consumed |-> 0, header |-> <<>>, self |-> self]
    ELSE frame_header_result(
             uncompressed_header([self EXCEPT !.seen_frame_header = TRUE], input,
                                 NewReader, obu_header))

(***************************************************************************)
(* tile_group.rs                                                           *)
(***************************************************************************)
\* the tile group header read by parse_tile_group_obu; val is
\* [num_tiles, tg_end]
tile_group_header(b, tile_info_arg) ==
    LET num_tiles == tile_info_arg.tile_cols * tile_info_arg.tile_rows
        tile_start_and_end_present == take_if(b, NewReader, num_tiles > 1, 1, 0)
        tile_bits == tile_info_arg.tile_cols_log2 + tile_info_arg.tile_rows_log2
        tg_start == take(b, tile_start_and_end_present, tile_bits)
        tg_end == take(b, tg_start, tile_bits)
    IN IF tile_start_and_end_present.st # "ok" THEN tile_start_and_end_present
       ELSE IF num_tiles = 1 \/ tile_start_and_end_present.val = 0
       THEN [tile_start_and_end_present EXCEPT
                !.val = [num_tiles |-> num_tiles, tg_end |-> num_tiles - 1]]
       ELSE IF tg_end.st # "ok" THEN tg_end
       ELSE WithVal(tg_end, [num_tiles |-> num_tiles, tg_end |-> tg_end.val])

\* parse_tile_group_obu; the result is [st, rest, self]. The header is read
\* without consuming it: the `size` bytes passed on begin with it.
parse_tile_group_obu(self, write, input, size_arg, tile_info_arg) ==
    LET h == tile_group_header(input, tile_info_arg)
        cleared == IF h.val.tg_end = h.val.num_tiles - 1
                   THEN [self EXCEPT !.seen_frame_header = FALSE] ELSE self
    IN IF h.st # "ok" THEN [st |-> h.st, rest |-> input, self |-> self]
       ELSE IF size_arg > Len(input) THEN [st |-> "panic", rest |-> input, self |-> cleared]
       ELSE [st |-> "ok", rest |-> SliceFrom(input, size_arg),
             self |-> IF write
                      THEN [cleared EXCEPT !.packet_out = @ \o SliceTo(input, size_arg)]
                      ELSE cleared]

\* A usize difference a - b. An unchecked build wraps a negative difference
\* around modulo 2^64; UsizeModulus stands for that modulus and is chosen
\* above every length of the model, so that a wrapped value is larger than
\* every length, as it is in the program.
UsizeModulus == Pow2(30)

wrapping_sub(a, b) == IF a >= b THEN a - b ELSE UsizeModulus + a - b

\* `frame_header.clone().or_else(|| self.previous_frame_header.clone())`: the
\* header parse_frame_header returned, or the one installed last; the unwrap
\* behind it panics when there is neither
ref_frame_header(fh) ==
    IF fh.header # <<>> THEN fh.header[1] ELSE fh.self.previous_frame_header[1]

\* parse_frame_obu, concluded
parse_frame_obu_2(write, debug_build, input, fh, after, no_header, underflow, tg) ==
    IF fh.st # "ok"
    THEN [st |-> fh.st, rest |-> input, header |-> <<>>, self |-> fh.self]
    ELSE IF no_header \/ (debug_build /\ underflow)
    THEN [st |-> "panic", rest |-> after, header |-> <<>>, self |-> fh.self]
    ELSE [st |-> tg.st, rest |-> tg.rest,
          header |-> IF tg.st = "ok" THEN fh.header ELSE <<>>, self |-> tg.self]

\* parse_frame_obu; the result is [st, rest, header, self]. In a build with
\* overflow checks `self.size - consumed` panics when it underflows. fh is the
\* outcome of its first statement, parse_frame_header(input, obu_header).
parse_frame_obu(write, debug_build, input, fh) ==
    LET after == SliceFrom(input, fh.consumed)
        no_header == fh.header = <<>> /\ fh.self.previous_frame_header = <<>>
        underflow == fh.self.size < fh.consumed
        tile_group_obu_size == wrapping_sub(fh.self.size, fh.consumed)
        tg == parse_tile_group_obu(fh.self, write, after, tile_group_obu_size,
                                   ref_frame_header(fh).tile_info)
    IN parse_frame_obu_2(write, debug_build, input, fh, after, no_header, underflow, tg)

(***************************************************************************)
(* obu.rs                                                                  *)
(***************************************************************************)
\* enum ObuType, by discriminant
SequenceHeader == 1

TemporalDelimiter == 2

FrameHeader == 3

TileGroup == 4

Metadata == 5

Frame == 6

RedundantFrameHeader == 7

TileList == 8

Reserved9 == 9

Padding == 15

\* parse_obu_header; val is the ObuHeader, and bits() consumes 1 or 2 bytes
parse_obu_header(input) ==
    LET forbidden_bit == take_zero_bits(input, NewReader, 1)
        obu_type == take(input, forbidden_bit, 4)
        extension_flag == take(input, obu_type, 1)
        has_size_field == take(input, extension_flag, 1)
        reserved_1bit == take_zero_bits(input, has_size_field, 1)
        temporal_id == take_if(input, reserved_1bit, extension_flag.val > 0, 3, 0)
        spatial_id == take_if(input, temporal_id, extension_flag.val > 0, 2, 0)
        reserved == take_if(input, spatial_id, extension_flag.val > 0, 3, 0)
    IN IF reserved.st # "ok" THEN reserved
       ELSE WithVal(reserved, [obu_type |-> obu_type.val,
                 has_size_field |-> has_size_field.val > 0,
                 extension |-> IF extension_flag.val > 0
                               THEN <<[temporal_id |-> temporal_id.val,
                                       spatial_id |-> spatial_id.val]>>
                               ELSE <<>>])

\* adjust_obu_size: the packet_out it leaves
adjust_obu_size(packet_out_arg, pos, leb_size, new_obu_size) ==
    SliceTo(packet_out_arg, pos) \o leb128_write(new_obu_size)
        \o SliceFrom(packet_out_arg, pos + leb_size)

\* Obu values
ObuSequenceHeader(h) == [kind |-> "SequenceHeader", header |-> h]

ObuFrameHeader(h) == [kind |-> "FrameHeader", header |-> h]

\* a tail that never steps over the bytes the body parser left of the OBU
finish_sized_obu_noskip(self_body, write, has_size_field, extend, packet_start_len, obu_size_pos, leb_size, obu_size, taken_by_body, bytes_taken, body_rest) ==
    [st |-> "ok", rest |-> body_rest, self |-> self_body]

\* the tail shared by the SequenceHeader, Frame and FrameHeader arms of
\* parse_obu once the body parser has returned: self_body is the parser and
\* body_rest the input it left, taken the bytes from the start of the OBU to
\* body_rest. extend is TRUE in the FrameHeader arm, which appends the bytes
\* it steps over to packet_out. The result is [st, rest, self].
finish_sized_obu(self_body, write, has_size_field, extend, packet_start_len, obu_size_pos, leb_size, obu_size, taken_by_body, bytes_taken, body_rest) ==
    LET bytes_written == Len(self_body.packet_out) - packet_start_len
        obu_size_change == bytes_written - bytes_taken
        adjusted == IF write /\ obu_size_change # 0
                    THEN [self_body EXCEPT !.packet_out =
                             adjust_obu_size(@, obu_size_pos, leb_size,
                                             obu_size + obu_size_change)]
                    ELSE self_body
        adjustment == obu_size - taken_by_body
        extended == IF extend
                    THEN [adjusted EXCEPT !.packet_out = @ \o SliceTo(body_rest, adjustment)]
                    ELSE adjusted
    IN IF ~has_size_field THEN [st |-> "ok", rest |-> body_rest, self |-> self_body]
       ELSE IF adjustment < 0 \/ adjustment > Len(body_rest)
       THEN [st |-> "panic", rest |-> body_rest,
             self |-> IF adjustment < 0 THEN self_body ELSE adjusted]
       ELSE [st |-> "ok", rest |-> SliceFrom(body_rest, adjustment), self |-> extended]

\* the SequenceHeader arm of parse_obu; seq is the outcome of
\* parse_sequence_header. The result is [st, rest, obu, self].
sequence_header_arm(self_hdr, write, has_size_field, input, packet_start_len, obu_size_pos, leb_size, obu_size, header_bytes, seq) ==
    LET seq_fin == finish_sized_obu([self_hdr EXCEPT !.packet_out = seq.packet_out], write,
                                    has_size_field, FALSE, packet_start_len,
                                    obu_size_pos, leb_size, obu_size, seq.consumed,
                                    header_bytes + seq.consumed,
                                    SliceFrom(input, seq.consumed))
    IN IF seq.st # "ok"
       THEN [st |-> seq.st, rest |-> input, obu |-> <<>>,
             self |-> [self_hdr EXCEPT !.packet_out = seq.packet_out]]
       ELSE [st |-> seq_fin.st, rest |-> seq_fin.rest,
             obu |-> IF seq_fin.st = "ok" THEN <<ObuSequenceHeader(seq.header[1])>>
                     ELSE <<>>,
             self |-> seq_fin.self]

\* the Frame arm of parse_obu; frm is the outcome of parse_frame_obu
frame_arm(write, has_size_field, input, packet_start_len, obu_size_pos, leb_size, obu_size, header_bytes, frm) ==
    LET frm_taken == Len(input) - Len(frm.rest)
        frm_fin == finish_sized_obu(frm.self, write, has_size_field, FALSE,
                                    packet_start_len, obu_size_pos, leb_size, obu_size,
                                    frm_taken, header_bytes + frm_taken, frm.rest)
    IN IF frm.st # "ok"
       THEN [st |-> frm.st, rest |-> input, obu |-> <<>>, self |-> frm.self]
       ELSE [st |-> frm_fin.st, rest |-> frm_fin.rest,
             obu |-> IF frm_fin.st = "ok" /\ frm.header # <<>>
                     THEN <<ObuFrameHeader(frm.header[1])>> ELSE <<>>,
             self |-> frm_fin.self]

\* the FrameHeader arm of parse_obu; fh is the outcome of parse_frame_header
frame_header_arm(write, has_size_field, input, packet_start_len, obu_size_pos, leb_size, obu_size, header_bytes, fh) ==
    LET fh_fin == finish_sized_obu(fh.self, write, has_size_field, TRUE,
                                   packet_start_len, obu_size_pos, leb_size, obu_size,
                                   fh.consumed, header_bytes + fh.consumed,
                                   SliceFrom(input, fh.consumed))
    IN IF fh.st # "ok"
       THEN [st |-> fh.st, rest |-> input, obu |-> <<>>, self |-> fh.self]
       ELSE [st |-> fh_fin.st, rest |-> fh_fin.rest,
             obu |-> IF fh_fin.st = "ok" /\ fh.header # <<>>
                     THEN <<ObuFrameHeader(fh.header[1])>> ELSE <<>>,
             self |-> fh_fin.self]

\* the arms for TemporalDelimiter and the types that are passed through
passed_through_arm(self_hdr, write, obu_type, input, obu_size) ==
    LET td == IF obu_type = TemporalDelimiter
              THEN [self_hdr EXCEPT !.seen_frame_header = FALSE] ELSE self_hdr
    IN IF obu_size > Len(input)
       THEN [st |-> "panic", rest |-> input, obu |-> <<>>, self |-> td]
       ELSE [st |-> "ok", rest |-> SliceFrom(input, obu_size), obu |-> <<>>,
             self |-> IF write
                      THEN [td EXCEPT !.packet_out = @ \o SliceTo(input, obu_size)]
                      ELSE td]

\* the `match obu_header.obu_type` of parse_obu; fh is the outcome of
\* parse_frame_header(input, obu_header), which the Frame arm calls through
\* parse_frame_obu and the FrameHeader arm calls itself
obu_arms(self_hdr, write, debug_build, incoming_is_some, obu_header, input, packet_start_len, obu_size_pos, leb_size, obu_size, header_bytes, fh) ==
    CASE obu_header.obu_type = SequenceHeader ->
             sequence_header_arm(self_hdr, write, obu_header.has_size_field, input,
                                 packet_start_len, obu_size_pos, leb_size, obu_size,
                                 header_bytes,
                                 parse_sequence_header(write, incoming_is_some,
                                                       self_hdr.packet_out, input))
      [] obu_header.obu_type = Frame ->
             frame_arm(write, obu_header.has_size_field, input, packet_start_len,
                       obu_size_pos, leb_size, obu_size, header_bytes,
                       parse_frame_obu(write, debug_build, input, fh))
      [] obu_header.obu_type = FrameHeader ->
             frame_header_arm(write, obu_header.has_size_field, input, packet_start_len,
                              obu_size_pos, leb_size, obu_size, header_bytes, fh)
      [] obu_header.obu_type = TileGroup ->
             [st |-> "panic", rest |-> input, obu |-> <<>>, self |-> self_hdr]
      [] OTHER ->
             passed_through_arm(self_hdr, write, obu_header.obu_type, input, obu_size)

\* the arms of parse_obu behind the operating point filter; self_hdr is the
\* parser once self.size is set and the OBU's header bytes are written, input
\* what follows the header and size field. The result is [st, rest, obu, self].
parse_obu_body(self_hdr, write, debug_build, incoming_is_some, obu_header, input, packet_start_len, obu_size_pos, leb_size, obu_size, header_bytes) ==
    obu_arms(self_hdr, write, debug_build, incoming_is_some, obu_header, input,
             packet_start_len, obu_size_pos, leb_size, obu_size, header_bytes,
             parse_frame_header(self_hdr, input, obu_header))

\* parse_obu, concluded
parse_obu_3(self, write, debug_build, incoming_is_some, input, packet_start_len, hdr, obu_header, obu_size_pos, result, leb_size, no_size, obu_size, body_input, total_header_size, self_hdr, filtered) ==
    IF hdr.st # "ok" THEN [st |-> hdr.st, rest |-> input, obu |-> <<>>, self |-> self]
    ELSE IF obu_header.has_size_field /\ ~result.ok
    THEN [st |-> "err", rest |-> input, obu |-> <<>>, self |-> self]
    ELSE IF ~obu_header.has_size_field /\ debug_build /\ no_size
    THEN [st |-> "panic", rest |-> input, obu |-> <<>>, self |-> self]
    ELSE IF filtered
    THEN (IF obu_size > Len(body_input)
          THEN [st |-> "panic", rest |-> input, obu |-> <<>>, self |-> self_hdr]
          ELSE [st |-> "ok", rest |-> SliceFrom(body_input, obu_size), obu |-> <<>>,
                self |-> IF write
                         THEN [self_hdr EXCEPT
                                  !.packet_out = @ \o SliceTo(body_input, obu_size)]
                         ELSE self_hdr])
    ELSE parse_obu_body(self_hdr, write, debug_build, incoming_is_some, obu_header,
                        body_input, packet_start_len, obu_size_pos, leb_size, obu_size,
                        total_header_size)

\* parse_obu, continued from obu_header_size
parse_obu_2(self, write, debug_build, incoming_is_some, input, packet_start_len, hdr, obu_header) ==
    LET obu_header_size == IF obu_header.extension # <<>> THEN 2 ELSE 1
        obu_size_pos == packet_start_len + obu_header_size
        after_header == SliceFrom(input, obu_header_size)
        result == leb128(after_header)
        leb_size == IF obu_header.has_size_field THEN result.bytes_read ELSE 0
        no_size == self.size = 0 \/ self.size < obu_header_size
        obu_size == IF obu_header.has_size_field THEN result.value
                    ELSE wrapping_sub(self.size, obu_header_size)
        body_input == IF obu_header.has_size_field THEN result.rest ELSE after_header
        total_header_size == Len(input) - Len(body_input)
        self_hdr == [self EXCEPT
                        !.size = obu_size,
                        !.packet_out = IF write THEN @ \o SliceTo(input, total_header_size)
                                       ELSE @]
        filtered == /\ obu_header.obu_type # SequenceHeader
                    /\ obu_header.obu_type # TemporalDelimiter
                    /\ obu_header.extension # <<>>
                    /\ self.sequence_header # <<>>
                    /\ self.sequence_header[1].cur_operating_point_idc # 0
                    /\ ~in_operating_point(self.sequence_header[1].cur_operating_point_idc,
                                           obu_header)
    IN parse_obu_3(self, write, debug_build, incoming_is_some, input, packet_start_len,
                   hdr, obu_header, obu_size_pos, result, leb_size, no_size, obu_size,
                   body_input, total_header_size, self_hdr, filtered)

\* parse_obu; the result is [st, rest, obu, self]: st is "ok", "err" (the
\* Err the `?` operator hands to the driver) or "panic"; rest is the input
\* left, obu the Option<Obu> returned and self the parser afterwards
parse_obu(self, write, debug_build, incoming_is_some, input) ==
    LET packet_start_len == Len(self.packet_out)
        hdr == parse_obu_header(input)
        obu_header == hdr.val
    IN parse_obu_2(self, write, debug_build, incoming_is_some, input, packet_start_len,
                   hdr, obu_header)

(***************************************************************************)
(* parser.rs: the drivers. Both walk the packets of the video stream and   *)
(* loop parse_obu over each packet until its input is empty.               *)
(***************************************************************************)
\* the `match obu` of both loops: the header the OBU carried is installed
install_obu(self, obu) ==
    IF obu = <<>> THEN self
    ELSE IF obu[1].kind = "SequenceHeader"
    THEN [self EXCEPT !.sequence_header = <<obu[1].header>>]
    ELSE [self EXCEPT !.previous_frame_header = <<obu[1].header>>]

\* what a call of parse_obu leaves in the history of the packet: the parser
\* before and after it, its input and what it returned
obu_record(self, input_arg, p) ==
    [before |-> self, input |-> input_arg, st |-> p.st, rest |-> p.rest, obu |-> p.obu,
     after |-> p.self]

\* the push of get_grain_headers without the headers that show an existing
\* frame
push_grain_header_no_existing(grain_headers_arg, obu) ==
    IF obu # <<>> /\ obu[1].kind = "FrameHeader" /\ ~obu[1].header.show_existing_frame
    THEN Append(grain_headers_arg, obu[1].header.film_grain_params)
    ELSE grain_headers_arg

\* `self.grain_headers.push(..)` of get_grain_headers' `match obu`
push_grain_header(grain_headers_arg, obu) ==
    IF obu # <<>> /\ obu[1].kind = "FrameHeader"
    THEN Append(grain_headers_arg, obu[1].header.film_grain_params)
    ELSE grain_headers_arg

(***************************************************************************)
(* main.rs: aggregate_grain_headers.                                       *)
(***************************************************************************)
\* whether n is a power of two: 1 / n is then a binary fraction, and the sums
\* of time_per_packet are exact in f64
RECURSIVE IsPow2(_)
IsPow2(n) == n = 1 \/ (n % 2 = 0 /\ IsPow2(n \div 2))

\* the values `cur_packet_end_f.ceil() as u64` can have once time_per_packet
\* = den / num has been summed n times. The sum is the exact n * den / num up
\* to the rounding of f64, which matters only where the exact sum is a whole
\* number: a sum that lands just above it is rounded up to the next one.
packet_end_ceil(rate, n) ==
    LET exact == CeilDiv(n * rate.den, rate.num)
    IN IF n > 1 /\ (n * rate.den) % rate.num = 0 /\ ~IsPow2(rate.num)
       THEN {exact, exact + 1} ELSE {exact}

\* a fold that opens every new segment at time 0
fold_step_from_zero(acc_arg, elem, packet_start, packet_end) ==
    LET prev_packet_has_grain ==
            acc_arg # <<>> /\ acc_arg[Len(acc_arg)].end_time = packet_start
        extended == [acc_arg EXCEPT ![Len(acc_arg)].end_time = packet_end]
        pushed == Append(acc_arg, [start_time |-> 0, end_time |-> packet_end,
                                   grain_params |-> elem.params])
    IN IF prev_packet_has_grain
       THEN CASE elem.kind = "Disable" -> acc_arg
              [] elem.kind = "CopyRefFrame" -> extended
              [] OTHER -> IF FilmGrainParamsEq(elem.params,
                                               acc_arg[Len(acc_arg)].grain_params)
                          THEN extended ELSE pushed
       ELSE IF elem.kind = "UpdateGrain" THEN pushed ELSE acc_arg

\* the closure of the fold over one film grain header: the segments it leaves
fold_step(acc_arg, elem, packet_start, packet_end) ==
    LET prev_packet_has_grain ==
            acc_arg # <<>> /\ acc_arg[Len(acc_arg)].end_time = packet_start
        extended == [acc_arg EXCEPT ![Len(acc_arg)].end_time = packet_end]
        pushed == Append(acc_arg, [start_time |-> packet_start, end_time |-> packet_end,
                                   grain_params |-> elem.params])
    IN IF prev_packet_has_grain
       THEN CASE elem.kind = "Disable" -> acc_arg
              [] elem.kind = "CopyRefFrame" -> extended
              [] OTHER -> IF FilmGrainParamsEq(elem.params,
                                               acc_arg[Len(acc_arg)].grain_params)
                          THEN extended ELSE pushed
       ELSE IF elem.kind = "UpdateGrain" THEN pushed ELSE acc_arg

\* what a call of the fold's closure leaves in the history of the fold: the
\* header it was given, the times of its packet, and the segments before and
\* after it
fold_record(acc_arg, elem, packet_start, packet_end) ==
    [elem |-> elem, packet_start |-> packet_start, packet_end |-> packet_end,
     before |-> acc_arg, after |-> fold_step(acc_arg, elem, packet_start, packet_end)]

(***************************************************************************)
(* Inputs: OBUs as they stand in a packet, and the packets built of them.  *)
(* The sequence headers describe a 16x16 stream of profile 0 with one      *)
(* operating point; the frame headers are written for those sequence       *)
(* headers and are followed by two bytes of tile data.                     *)
(***************************************************************************)
\* temporal delimiter, with a size field of 0
TD == <<18, 0>>

\* sequence header, film_grain_params_present = 1, 9 bytes
SeqGrain == <<10, 9, 0, 0, 0, 1, 159, 248, 3, 0, 48>>

\* the same with film_grain_params_present = 0
SeqNoGrain == <<10, 9, 0, 0, 0, 1, 159, 248, 3, 0, 16>>

\* sequence header with order hints of 3 bits: film_grain_params_present is
\* the last bit of the 9th byte, and the trailing bits take a 10th byte
SeqTrailing == <<10, 10, 0, 0, 0, 1, 159, 248, 4, 208, 1, 128>>

\* sequence header with order hints of 4 bits, 10 bytes
SeqOrderHint == <<10, 10, 0, 0, 0, 1, 159, 248, 4, 216, 1, 128>>

\* sequence header whose operating point is temporal layer 0, spatial layer 0
SeqLayers == <<10, 9, 0, 1, 1, 1, 159, 248, 3, 0, 48>>

\* sequence header with reduced_still_picture_header = 1
SeqReduced == <<10, 6, 8, 12, 255, 192, 1, 128>>

\* the sequence header of a still picture: still_picture = 1 and
\* reduced_still_picture_header = 1
SeqStill == <<10, 6, 24, 12, 255, 192, 1, 128>>

\* the sequence header of SeqGrain with enable_superres = 1
SeqSuperres == <<10, 9, 0, 0, 0, 1, 159, 248, 3, 128, 48>>

\* Frame OBUs: shown key frames
FrameKeyNone == <<50, 5, 24, 128, 0, 170, 187>>

FrameKeyUpdate == <<50, 9, 24, 128, 1, 0, 1, 0, 0, 170, 187>>

\* a shown key frame with base_q_idx = 0, use_superres = 1 and coded_denom = 1,
\* for SeqSuperres: 16 luma samples scaled down to (16 * 8 + 5) / 10 = 13
FrameKeySuperres == <<50, 6, 25, 40, 0, 0, 170, 187>>

\* a key frame that is not shown, refresh_frame_flags = 0xff
FrameKeyHidden == <<50, 7, 6, 127, 160, 0, 0, 170, 187>>

\* a shown key frame with order_hint = 5, for SeqOrderHint
FrameKeyOrderHint == <<50, 6, 24, 168, 0, 0, 170, 187>>

\* Frame OBUs: shown inter frames, refresh_frame_flags = 1
FrameInterNone == <<50, 11, 52, 224, 32, 0, 0, 40, 0, 0, 0, 170, 187>>

FrameInterCopy == <<50, 13, 52, 224, 32, 0, 0, 40, 0, 0, 16, 0, 16, 170, 187>>

FrameInterUpdate == <<50, 15, 52, 224, 32, 0, 0, 40, 0, 0, 16, 0, 56, 0, 0, 170, 187>>

\* a shown inter frame with order_hint = 6, for SeqOrderHint
FrameInterOrderHint == <<50, 12, 52, 110, 2, 0, 0, 1, 64, 0, 0, 0, 170, 187>>

\* a shown inter frame with error_resilient_mode = 1, order_hint = 6 and
\* refresh_frame_flags = 2, for SeqOrderHint: eight ref_order_hint of 0 follow
FrameInterResilient == <<50, 15, 60, 96, 32, 0, 0, 0, 0, 0, 0, 10, 0, 0, 0, 170, 187>>

\* a Frame OBU that ends inside its frame header
FrameKeyTruncated == <<50, 2, 24, 128>>

\* FrameHeader OBUs, with their trailing bits
FrameHeaderKeyUpdate == <<26, 7, 24, 128, 1, 0, 1, 0, 1>>

FrameHeaderShowExisting == <<26, 1, 136>>

\* a TileGroup OBU on its own
TileGroupObu == <<34, 2, 170, 187>>

\* OBUs that are passed through
MetadataObu == <<42, 3, 1, 2, 3>>

\* a RedundantFrameHeader, a TileList and a Reserved9 OBU
RedundantFrameHeaderObu == <<58, 2, 24, 128>>

TileListObu == <<66, 3, 1, 2, 3>>

ReservedObu == <<74, 1, 4>>

\* padding without a size field, 2 and 4 bytes of payload
PaddingNoSize2 == <<120, 7, 7>>

PaddingNoSize4 == <<120, 7, 7, 7, 7>>

\* padding with an extension: temporal layer 1
PaddingLayer1 == <<126, 32, 2, 9, 9>>

\* a shown key frame with an extension: temporal layer 0
FrameKeyLayer0 == <<54, 0, 5, 24, 128, 0, 170, 187>>

\* the packets a stream is made of
Packets ==
    { TD \o SeqGrain \o FrameKeyUpdate,
      TD \o SeqNoGrain \o FrameKeyNone,
      TD \o SeqGrain \o FrameKeyHidden,
      TD \o SeqOrderHint \o FrameKeyOrderHint,
      TD \o SeqSuperres \o FrameKeySuperres,
      TD \o SeqLayers \o PaddingLayer1 \o FrameKeyLayer0,
      TD \o FrameInterNone,
      TD \o FrameInterCopy,
      TD \o FrameInterUpdate,
      TD \o FrameInterOrderHint,
      TD \o FrameInterResilient,
      TD \o SeqGrain \o FrameKeyTruncated,
      RedundantFrameHeaderObu \o TileListObu \o ReservedObu,
      TD \o FrameHeaderShowExisting,
      TD \o FrameHeaderKeyUpdate \o TileGroupObu,
      TD \o FrameHeaderKeyUpdate \o FrameHeaderKeyUpdate,
      SeqGrain,
      SeqTrailing,
      SeqReduced,
      SeqStill,
      SliceTo(SeqGrain, 6),
      MetadataObu \o PaddingNoSize2,
      MetadataObu \o PaddingNoSize4,
      PaddingNoSize2 }

\* the film grain headers the aggregator is fed
GrainHeaderInputs ==
    { Disable, CopyRefFrame, UpdateGrain(BaseGrainParams),
      UpdateGrain([BaseGrainParams EXCEPT !.grain_seed = 2]),
      UpdateGrain([BaseGrainParams EXCEPT !.scaling_shift = 9]) }

\* frame rates, as ffmpeg's Rational
FrameRates ==
    { [num |-> 24, den |-> 1], [num |-> 30000, den |-> 1001], [num |-> 3, den |-> 1],
      [num |-> 1, den |-> 1], [num |-> 2, den |-> 3], [num |-> 1, den |-> 2] }

\* the byte strings leb128 is run on: up to MaxLebBytes bytes with and
\* without continuation bit; from the 5th byte on the low 7 bits are 0, which
\* keeps the value read below 2^31
LebInputs ==
    UNION { { h \o t : h \in [1 .. Min(n, 4) -> {0, 1, 128, 255}],
                       t \in [1 .. Max(n - 4, 0) -> {0, 128}] } : n \in 0 .. MaxLebBytes }

\* the frame rates of the longer streams
ScenarioRates ==
    { [num |-> 24000, den |-> 1001], [num |-> 30000, den |-> 1001],
      [num |-> 24, den |-> 1], [num |-> 1, den |-> 1] }

\* the values the LEB128 round trip is run on: LebSpread values on either
\* side of every length boundary 2^(7k), and below 2^31
LebValues ==
    { v \in UNION { { Pow2(7 * k) - d, Pow2(7 * k) + d } :
                        k \in 0 .. 4, d \in 0 .. LebSpread } : v >= 0 }
        \cup { Pow2(30) + (Pow2(30) - 1) - d : d \in 0 .. LebSpread }

(***************************************************************************)
(* The state.                                                              *)
(***************************************************************************)
VARIABLES
    WRITE,                  \* the const generic of BitstreamParser
    incoming_grain_header,  \* whether incoming_grain_header is Some
    debug_build,            \* whether overflow checks and debug_assert! are on
    parser,                 \* the fields of BitstreamParser the OBU parser uses
    grain_headers,          \* BitstreamParser::grain_headers
    parsed,                 \* BitstreamParser::parsed
    status,                 \* "running", "done", "error" (Err returned) or "panic"
    run,                    \* 1, or 2 in a second `remove` over the file the first wrote
    npackets,               \* packets read from the input so far
    packet,                 \* the packet read last
    input,                  \* `input`: what is left of that packet
    pc,                     \* where the driver stands: "packets", "call" or "match"
    returned,               \* what the last call of parse_obu returned
    obus,                   \* history: an obu_record per OBU of that packet
    output,                 \* the packets written to the output file
    again_output,           \* the packets the second run has written
    val, encoded, result, leb_phase,                          \* the LEB128 round trip
    frame_rate, fed, acc, cur_packet_start, cur_packet_end,   \* the aggregator
    folds,                  \* history: a fold_record per header folded
    call,                   \* one call of a sub-parser: the function and its arguments
    outcome                 \* what that call returned, once it has

parser_vars == <<WRITE, incoming_grain_header, debug_build, parser, grain_headers, parsed,
                 status, run, npackets, packet, input, pc, returned, obus, output,
                 again_output>>

leb_vars == <<val, encoded, result, leb_phase>>

agg_vars == <<frame_rate, fed, acc, cur_packet_start, cur_packet_end, folds>>

fn_vars == <<call, outcome>>

vars == <<parser_vars, leb_vars, agg_vars, fn_vars>>

\* BitstreamParser::new and ::with_writer: every field at its default
ParserNew ==
    [packet_out |-> <<>>, size |-> 0, seen_frame_header |-> FALSE,
     sequence_header |-> <<>>, previous_frame_header |-> <<>>,
     ref_frame_idx |-> [i \in 1 .. REFS_PER_FRAME |-> 0],
     ref_order_hint |-> [i \in 1 .. NUM_REF_FRAMES |-> 0],
     big_ref_order_hint |-> [i \in 1 .. NUM_REF_FRAMES |-> 0],
     big_ref_valid |-> [i \in 1 .. NUM_REF_FRAMES |-> FALSE],
     big_order_hints |-> [i \in 1 .. Last + REFS_PER_FRAME |-> 0]]

NoResult == [ok |-> FALSE, value |-> 0, bytes_read |-> 0, rest |-> <<>>]

\* no call of parse_obu has returned
NothingReturned == [st |-> "ok", rest |-> <<>>, obu |-> <<>>]

\* the parser before it is constructed
ParserIdle ==
    /\ WRITE = FALSE /\ incoming_grain_header = FALSE /\ debug_build = FALSE
    /\ parser = ParserNew /\ grain_headers = <<>> /\ parsed = FALSE
    /\ status = "idle" /\ run = 1 /\ npackets = 0 /\ packet = <<>> /\ input = <<>>
    /\ pc = "packets" /\ returned = NothingReturned /\ obus = <<>>
    /\ output = <<>> /\ again_output = <<>>

LebIdle == val = 0 /\ encoded = <<>> /\ result = NoResult /\ leb_phase = "idle"

AggIdle ==
    /\ frame_rate = [num |-> 1, den |-> 1] /\ fed = 0 /\ acc = <<>>
    /\ cur_packet_start = 0 /\ cur_packet_end = 0 /\ folds = <<>>

\* no sub-parser is called on its own
FnIdle == call = [fn |-> "none"] /\ outcome = <<>>

(***************************************************************************)
(* The parser: a run of `inspect` (WRITE = FALSE), `apply` (WRITE = TRUE   *)
(* with a grain table) or `remove` (WRITE = TRUE without one). The driver  *)
(* stands at the head of its loop over the packets (pc = "packets"), at    *)
(* the call of parse_obu (pc = "call") or at the `match obu` behind the    *)
(* call (pc = "match").                                                    *)
(***************************************************************************)
Init ==
    /\ WRITE \in BOOLEAN
    /\ incoming_grain_header \in (IF WRITE THEN BOOLEAN ELSE {FALSE})
    /\ debug_build \in BOOLEAN
    /\ parser = ParserNew /\ grain_headers = <<>> /\ parsed = FALSE
    /\ status = "running" /\ run = 1 /\ npackets = 0 /\ packet = <<>> /\ input = <<>>
    /\ pc = "packets" /\ returned = NothingReturned /\ obus = <<>>
    /\ output = <<>> /\ again_output = <<>>
    /\ LebIdle /\ AggIdle /\ FnIdle

StatusOf(st) == IF st = "ok" THEN "running" ELSE IF st = "err" THEN "error" ELSE "panic"

\* the loop over the packets of the input yields the next packet of the
\* video stream, and `input` is its data
NextPacket(pkt) ==
    /\ run = 1 /\ status = "running" /\ pc = "packets" /\ npackets < MaxPackets
    /\ packet' = pkt
    /\ input' = pkt
    /\ npackets' = npackets + 1
    /\ obus' = <<>>
    /\ pc' = "call"
    /\ UNCHANGED <<WRITE, incoming_grain_header, debug_build, parser, grain_headers, parsed,
                   status, run, returned, output, again_output, leb_vars, agg_vars, fn_vars>>

\* `self.parse_obu(input, packet_ts)`, called by both drivers. An Err is
\* handed on by the `?` behind the call, and the driver returns it.
ParseObu ==
    /\ status = "running" /\ pc = "call"
    /\ \E p \in {parse_obu(parser, WRITE, debug_build, incoming_grain_header, input)} :
          /\ parser' = p.self
          /\ returned' = [st |-> p.st, rest |-> p.rest, obu |-> p.obu]
          /\ obus' = Append(obus, obu_record(parser, input, p))
          /\ status' = StatusOf(p.st)
          /\ pc' = IF p.st = "ok" THEN "match" ELSE "call"
    /\ UNCHANGED <<WRITE, incoming_grain_header, debug_build, grain_headers, parsed, run,
                   npackets, packet, input, output, again_output, leb_vars, agg_vars, fn_vars>>

\* get_grain_headers behind the call: `input = inner_input`, the `match obu`
\* and the `break` on an empty input
GetGrainHeadersObu ==
    /\ ~WRITE /\ status = "running" /\ pc = "match"
    /\ input' = returned.rest
    /\ parser' = install_obu(parser, returned.obu)
    /\ grain_headers' = push_grain_header(grain_headers, returned.obu)
    /\ pc' = IF returned.rest = <<>> THEN "packets" ELSE "call"
    /\ UNCHANGED <<WRITE, incoming_grain_header, debug_build, parsed, status, run, npackets,
                   packet, returned, obus, output, again_output, leb_vars, agg_vars, fn_vars>>

\* modify_grain_headers behind the call: `input = inner_input` and the
\* `match obu`; on an empty input the loop is left, the packet is resized to
\* packet_out, filled with it and written, and packet_out is cleared
ModifyGrainHeadersObu ==
    /\ WRITE /\ status = "running" /\ pc = "match"
    /\ input' = returned.rest
    /\ IF returned.rest = <<>>
       THEN /\ parser' = [install_obu(parser, returned.obu) EXCEPT !.packet_out = <<>>]
            /\ output' = IF run = 1 THEN Append(output, parser.packet_out) ELSE output
            /\ again_output' = IF run = 2 THEN Append(again_output, parser.packet_out)
                               ELSE again_output
            /\ pc' = "packets"
       ELSE /\ parser' = install_obu(parser, returned.obu)
            /\ pc' = "call"
            /\ UNCHANGED <<output, again_output>>
    /\ UNCHANGED <<WRITE, incoming_grain_header, debug_build, grain_headers, parsed, status,
                   run, npackets, packet, returned, obus, leb_vars, agg_vars, fn_vars>>

\* the input has no more packets: both drivers set `parsed` and return Ok
Finish ==
    /\ status = "running" /\ pc = "packets"
    /\ run = 2 => Len(again_output) = Len(output)
    /\ parsed' = TRUE
    /\ status' = "done"
    /\ UNCHANGED <<WRITE, incoming_grain_header, debug_build, parser, grain_headers, run,
                   npackets, packet, input, pc, returned, obus, output, again_output,
                   leb_vars, agg_vars, fn_vars>>

\* `remove` run once more, on the file a finished `remove` wrote: a new
\* parser, and its loop over the packets yields the next packet of that file
RemoveAgainPacket ==
    /\ WRITE /\ ~incoming_grain_header
    /\ \/ run = 1 /\ status = "done"
       \/ run = 2 /\ status = "running" /\ pc = "packets"
    /\ Len(again_output) < Len(output)
    /\ run' = 2
    /\ status' = "running"
    /\ parsed' = FALSE
    /\ parser' = IF run = 1 THEN ParserNew ELSE parser
    /\ packet' = output[Len(again_output) + 1]
    /\ input' = output[Len(again_output) + 1]
    /\ obus' = <<>>
    /\ pc' = "call"
    /\ UNCHANGED <<WRITE, incoming_grain_header, debug_build, grain_headers, npackets,
                   returned, output, again_output, leb_vars, agg_vars, fn_vars>>

Next ==
    \/ \E pkt \in Packets : NextPacket(pkt)
    \/ ParseObu
    \/ GetGrainHeadersObu
    \/ ModifyGrainHeadersObu
    \/ Finish
    \/ RemoveAgainPacket

Spec == Init /\ [][Next]_vars

(***************************************************************************)
(* The LEB128 round trip of util.rs' test: leb128_write, then leb128.      *)
(***************************************************************************)
InitLeb == ParserIdle /\ LebIdle /\ AggIdle /\ FnIdle

\* `let encoded = leb128_write(val)`
LebWrite(v) ==
    /\ leb_phase \in {"idle", "read"}
    /\ val' = v
    /\ encoded' = leb128_write(v)
    /\ result' = NoResult
    /\ leb_phase' = "written"
    /\ UNCHANGED <<parser_vars, agg_vars, fn_vars>>

\* `let result = leb128(&encoded)`
LebRead ==
    /\ leb_phase = "written"
    /\ result' = leb128(encoded)
    /\ leb_phase' = "read"
    /\ UNCHANGED <<val, encoded, parser_vars, agg_vars, fn_vars>>

NextLeb == (\E v \in LebValues : LebWrite(v)) \/ LebRead

SpecLeb == InitLeb /\ [][NextLeb]_vars

(***************************************************************************)
(* leb128 on the bytes of a stream, as parse_obu calls it on what follows  *)
(* an OBU header.                                                          *)
(***************************************************************************)
\* the bytes handed to leb128
LebInput(bytes) ==
    /\ leb_phase = "idle"
    /\ encoded' = bytes
    /\ result' = NoResult
    /\ leb_phase' = "written"
    /\ UNCHANGED <<val, parser_vars, agg_vars, fn_vars>>

\* leb128 is called once
NextLebInput == (leb_phase = "idle" /\ \E bytes \in LebInputs : LebInput(bytes)) \/ LebRead

SpecLebInput == InitLeb /\ [][NextLebInput]_vars

(***************************************************************************)
(* The aggregator: aggregate_grain_headers folds over the film grain       *)
(* headers, one per packet.                                                *)
(***************************************************************************)
InitAgg ==
    /\ ParserIdle /\ LebIdle /\ FnIdle
    /\ frame_rate \in FrameRates
    /\ fed = 0
    /\ acc = <<>>
    /\ cur_packet_start = 0
    /\ cur_packet_end = CeilDiv(frame_rate.den, frame_rate.num) * TIMESTAMP_BASE_UNIT
    /\ folds = <<>>

\* the fold's closure on the next header: fed counts the headers folded, and
\* cur_packet_end_f is time_per_packet summed fed + 1 times
Fold(elem) ==
    /\ acc' = fold_step(acc, elem, cur_packet_start, cur_packet_end)
    /\ folds' = Append(folds, fold_record(acc, elem, cur_packet_start, cur_packet_end))
    /\ cur_packet_start' = cur_packet_end
    /\ fed' = fed + 1
    /\ \E c \in packet_end_ceil(frame_rate, fed + 2) :
           cur_packet_end' = c * TIMESTAMP_BASE_UNIT
    /\ UNCHANGED <<frame_rate, parser_vars, leb_vars, fn_vars>>

\* the closure on the next of up to MaxHeaders headers of any kind
AggregateHeader(elem) == fed < MaxHeaders /\ Fold(elem)

NextAgg == \E elem \in GrainHeaderInputs : AggregateHeader(elem)

SpecAgg == InitAgg /\ [][NextAgg]_vars

(***************************************************************************)
(* The aggregator on longer streams: up to ScenarioFrames headers of a     *)
(* stream whose grain is constant, is switched off once and may be         *)
(* switched on again.                                                      *)
(***************************************************************************)
\* the headers folded so far
Folded == [i \in DOMAIN folds |-> folds[i].elem]

\* hs followed by elem is a run of equal UpdateGrain headers, then a run of
\* Disable headers, then a run of the same UpdateGrain header, given that hs
\* is; the last two runs may be empty
Scenario(hs, elem) ==
    IF hs = <<>> THEN elem.kind = "UpdateGrain"
    ELSE \/ elem = hs[1]
         \/ /\ elem = Disable
            /\ hs[Len(hs)] = Disable \/ \A i \in DOMAIN hs : hs[i] # Disable

InitScenario ==
    /\ ParserIdle /\ LebIdle /\ FnIdle
    /\ frame_rate \in ScenarioRates
    /\ fed = 0
    /\ acc = <<>>
    /\ cur_packet_start = 0
    /\ cur_packet_end = CeilDiv(frame_rate.den, frame_rate.num) * TIMESTAMP_BASE_UNIT
    /\ folds = <<>>

\* the closure on the next header of such a stream
AggregateScenario(elem) ==
    fed < ScenarioFrames /\ Scenario(Folded, elem) /\ Fold(elem)

NextScenario == \E elem \in GrainHeaderInputs : AggregateScenario(elem)

SpecScenario == InitScenario /\ [][NextScenario]_vars

(***************************************************************************)
(* One call of film_grain_params, as uncompressed_header makes it behind   *)
(* global_motion_params. The bits are those of a film_grain_params()       *)
(* syntax element, written field by field.                                 *)
(***************************************************************************)
\* `n` bits holding v, most significant first
BitsOf(v, n) == [i \in 1 .. n |-> (v \div Pow2(n - i)) % 2]

\* `n` scaling points or coefficients of `width` bits each, all zero
ZeroFields(n, width) == [i \in 1 .. n * width |-> 0]

\* the bits packed into bytes, the last byte padded with zeros
PackBits(bits) ==
    [k \in 1 .. CeilDiv(Len(bits), 8) |->
        LET at(j) == IF (k - 1) * 8 + j <= Len(bits) THEN bits[(k - 1) * 8 + j] ELSE 0
        IN at(1) * 128 + at(2) * 64 + at(3) * 32 + at(4) * 16
           + at(5) * 8 + at(6) * 4 + at(7) * 2 + at(8)]

\* the tail of the element behind the scaling points: grain_scaling_minus_8,
\* ar_coeff_lag = 0, one chroma coefficient per plane that has them,
\* ar_coeff_shift_minus_6, grain_scale_shift, the chroma multipliers, the flags
GrainTailBits(ny, from_luma, ncb, ncr, grain_scaling_minus_8) ==
    BitsOf(grain_scaling_minus_8, 2) \o BitsOf(0, 2)
    \o ZeroFields(IF (from_luma = 1 \/ ncb > 0) /\ ny > 0 THEN 1 ELSE 0, 8)
    \o ZeroFields(IF (from_luma = 1 \/ ncr > 0) /\ ny > 0 THEN 1 ELSE 0, 8)
    \o BitsOf(0, 2) \o BitsOf(0, 2)
    \o ZeroFields(IF ncb > 0 THEN 1 ELSE 0, 25)
    \o ZeroFields(IF ncr > 0 THEN 1 ELSE 0, 25)
    \o <<1, 0>>

\* the element of a frame that updates its grain: num_y_points and the luma
\* points, chroma_scaling_from_luma, the chroma points where the syntax has
\* them (4:2:0), then the tail
GrainUpdateBits(monochrome, ny, from_luma, ncb, ncr, grain_scaling_minus_8) ==
    LET chroma == ~monochrome /\ from_luma = 0 /\ ny > 0
        cb == IF chroma THEN ncb ELSE 0
        cr == IF chroma THEN ncr ELSE 0
    IN BitsOf(ny, 4) \o ZeroFields(ny, 16)
       \o (IF monochrome THEN <<>> ELSE <<from_luma>>)
       \o (IF chroma THEN BitsOf(ncb, 4) \o ZeroFields(ncb, 16)
                          \o BitsOf(ncr, 4) \o ZeroFields(ncr, 16)
           ELSE <<>>)
       \o GrainTailBits(ny, IF monochrome THEN 0 ELSE from_luma, cb, cr,
                        grain_scaling_minus_8)

\* the whole element: apply_grain, grain_seed, update_grain in an inter frame,
\* then film_grain_params_ref_idx or the update
GrainBits(frame_type, monochrome, apply_grain, update_grain, ny, from_luma, ncb, ncr, grain_scaling_minus_8) ==
    IF apply_grain = 0 THEN <<0>>
    ELSE <<1>> \o BitsOf(1234, 16)
         \o (IF frame_type = Inter THEN <<update_grain>> ELSE <<>>)
         \o (IF frame_type = Inter /\ update_grain = 0 THEN BitsOf(5, 3)
             ELSE GrainUpdateBits(monochrome, ny, from_luma, ncb, ncr,
                                  grain_scaling_minus_8))

\* the counts of luma points the calls carry: none, one, the capacity of the
\* list and the count beyond it that 4 bits can hold
LumaPointCounts == {0, 1, NUM_Y_POINTS, NUM_Y_POINTS + 1}

\* the frames film_grain_params is called for and the elements it is given
GrainCalls ==
    { [fn |-> "film_grain_params",
       bytes |-> PackBits(GrainBits(t, m, a, u, ny, fl, nc[1], nc[2], sh)),
       nbits |-> Len(GrainBits(t, m, a, u, ny, fl, nc[1], nc[2], sh)),
       film_grain_params_present |-> fgp,
       show_frame |-> sh_f[1], showable_frame |-> sh_f[2],
       frame_type |-> t, monochrome |-> m, subsampling |-> <<1, 1>>,
       update_grain |-> u, grain_scaling_minus_8 |-> sh,
       num_y_points |-> ny, num_cb_points |-> nc[1], num_cr_points |-> nc[2],
       chroma_scaling_from_luma |-> fl] :
      fgp \in BOOLEAN, sh_f \in {<<TRUE, FALSE>>, <<FALSE, TRUE>>, <<FALSE, FALSE>>},
      t \in {Key, Inter}, m \in BOOLEAN, a \in {0, 1}, u \in {0, 1},
      ny \in LumaPointCounts, fl \in {0, 1},
      nc \in {<<0, 0>>, <<NUM_UV_POINTS, 0>>, <<0, NUM_UV_POINTS>>,
              <<NUM_UV_POINTS + 1, 0>>, <<NUM_UV_POINTS, NUM_UV_POINTS + 1>>},
      sh \in 0 .. 3 }

InitGrain ==
    /\ ParserIdle /\ LebIdle /\ AggIdle
    /\ call \in GrainCalls
    /\ outcome = <<>>

\* frame.rs hands the call sequence_header.film_grain_params_present, the frame
\* type, whether the stream is monochrome and its subsampling; the function
\* grain.rs declares has no parameter for show_frame or showable_frame
FilmGrainParams ==
    /\ call.fn = "film_grain_params" /\ outcome = <<>>
    /\ outcome' = <<film_grain_params(call.bytes, NewReader,
                                      call.film_grain_params_present, call.frame_type,
                                      call.monochrome, call.subsampling)>>
    /\ UNCHANGED <<call, parser_vars, leb_vars, agg_vars>>

NextGrain == FilmGrainParams

SpecGrain == InitGrain /\ [][NextGrain]_vars

(***************************************************************************)
(* One call of tile_info, as uncompressed_header makes it with the mi_cols *)
(* and mi_rows of compute_image_size.                                      *)
(***************************************************************************)
\* the frames of the calls are up to MaxSb superblocks of 64x64 wide and high
MaxSb == 6

\* the sizes in units of 4x4 luma samples: whole 64x64 superblocks and the
\* frame of 16x16 samples
MiSizes == {4} \cup {16 * k : k \in 1 .. MaxSb}

\* the first byte holds uniform_tile_spacing_flag and the increment bits or
\* the first explicit sizes, the bytes behind it are zero
TileCalls ==
    { [fn |-> "tile_info", bytes |-> <<first, 0, 0>>,
       use_128x128_superblock |-> big, mi_cols |-> c, mi_rows |-> w] :
      first \in 0 .. 255, big \in BOOLEAN, c \in MiSizes, w \in MiSizes }

InitTiles ==
    /\ ParserIdle /\ LebIdle /\ AggIdle
    /\ call \in TileCalls
    /\ outcome = <<>>

TileInfo ==
    /\ call.fn = "tile_info" /\ outcome = <<>>
    /\ outcome' = <<tile_info(call.bytes, NewReader, call.use_128x128_superblock,
                              call.mi_cols, call.mi_rows)>>
    /\ UNCHANGED <<call, parser_vars, leb_vars, agg_vars>>

NextTiles == TileInfo

SpecTiles == InitTiles /\ [][NextTiles]_vars

(***************************************************************************)
(* One call of skip_mode_params, as uncompressed_header makes it with the  *)
(* saved order hints and the reference indices of the frame.               *)
(***************************************************************************)
\* the order hints of the calls have HintBits bits
HintBits == 3

\* ref_frame_idx: the 7 references spread over slots 0 to 2, or all one slot
RefFrameIdxs == {<<0, 1, 2, 0, 1, 2, 0>>, <<0, 0, 0, 0, 0, 0, 0>>, <<1, 1, 1, 1, 1, 1, 1>>}

\* an inter frame with reference_select under a sequence header with order
\* hints: every order hint of the frame and of slots 0 and 1, slot 2 at 0
SkipModeCallsHinted ==
    { [fn |-> "skip_mode_params", bytes |-> <<first>>,
       frame_is_intra |-> FALSE, reference_select |-> TRUE,
       order_hint_bits |-> HintBits, order_hint |-> oh,
       ref_order_hint |-> <<h0, h1, 0, 0, 0, 0, 0, 0>>, ref_frame_idx |-> idx] :
      first \in {0, 128}, oh \in 0 .. Pow2(HintBits) - 1,
      h0 \in 0 .. Pow2(HintBits) - 1, h1 \in 0 .. Pow2(HintBits) - 1,
      idx \in RefFrameIdxs }

\* the frames that are intra, have no reference_select or no order hints
SkipModeCallsFlagged ==
    { [fn |-> "skip_mode_params", bytes |-> <<128>>,
       frame_is_intra |-> intra, reference_select |-> sel,
       order_hint_bits |-> bits, order_hint |-> (IF bits = 0 THEN 0 ELSE 5),
       ref_order_hint |-> (IF bits = 0 THEN <<0, 0, 0, 0, 0, 0, 0, 0>>
                           ELSE <<h0, 1, 0, 0, 0, 0, 0, 0>>),
       ref_frame_idx |-> <<0, 1, 2, 0, 1, 2, 0>>] :
      intra \in BOOLEAN, sel \in BOOLEAN, bits \in {0, HintBits}, h0 \in {3, 6} }

SkipModeCalls == SkipModeCallsHinted \cup SkipModeCallsFlagged

InitSkipMode ==
    /\ ParserIdle /\ LebIdle /\ AggIdle
    /\ call \in SkipModeCalls
    /\ outcome = <<>>

SkipModeParams ==
    /\ call.fn = "skip_mode_params" /\ outcome = <<>>
    /\ outcome' = <<skip_mode_params(call.bytes, NewReader, call.frame_is_intra,
                                     call.reference_select, call.order_hint_bits,
                                     call.order_hint, call.ref_order_hint,
                                     call.ref_frame_idx)>>
    /\ UNCHANGED <<call, parser_vars, leb_vars, agg_vars>>

NextSkipMode == SkipModeParams

SpecSkipMode == InitSkipMode /\ [][NextSkipMode]_vars

(***************************************************************************)
(* The properties.                                                         *)
(***************************************************************************)
\* the driver of a rewrite has just written the packet it read last
PacketWritten ==
    WRITE /\ run = 1 /\ status = "running" /\ pc = "packets" /\ Len(output) = npackets
          /\ npackets > 0

\* every sequence header of the packet read last carries the value the
\* rewrite forces film_grain_params_present to: the rewrite leaves the bit as
\* it is
KeepsSequenceBit ==
    \A i \in DOMAIN obus :
        (obus[i].obu # <<>> /\ obus[i].obu[1].kind = "SequenceHeader")
            => obus[i].obu[1].header.film_grain_params_present = incoming_grain_header

\* C1: a rewrite that leaves the film_grain_params_present bit of the sequence
\* headers as it is, and no grain header other than it was, writes every packet
\* byte for byte as it read it
C1_IdentityRewrite ==
    (PacketWritten /\ KeepsSequenceBit) => output[npackets] = packet

\* C2: `remove` run on the output of `remove` ends without an error and writes
\* every packet as it read it: remove(remove(s)) = remove(s)
C2_StripIdempotent ==
    run = 2 => /\ status \notin {"error", "panic"}
               /\ \A i \in DOMAIN again_output : again_output[i] = output[i]

\* C3: leb128 reads what leb128_write wrote of val: it succeeds, returns val,
\* leaves no byte unread and reports as many bytes read as were written,
\* between 1 and 5
C3_LebRoundTrip ==
    leb_phase = "read" =>
        /\ result.ok
        /\ result.value = val
        /\ result.rest = <<>>
        /\ result.bytes_read = Len(encoded)
        /\ Len(encoded) \in 1 .. 5

\* a value of five bytes has been written and read back
C3_Witness == leb_phase = "read" /\ val > Pow2(28) /\ Len(encoded) = 5 /\ result.ok

\* C4: every segment of the aggregator starts before it ends
C4_SegmentsNonEmpty ==
    \A i \in DOMAIN acc : acc[i].start_time < acc[i].end_time

\* the aggregator has made a segment that ends where it starts
C4_EmptySegment ==
    \E i \in DOMAIN acc : acc[i].start_time = acc[i].end_time

\* C5: the segments of the aggregator are sorted and do not overlap: each ends
\* no later than the next one starts
C5_SegmentsSorted ==
    \A i \in 1 .. Len(acc) - 1 : acc[i].end_time <= acc[i + 1].start_time

\* the aggregator has made three segments, two of them with a gap between
C5_Witness ==
    Len(acc) >= 3 /\ \E i \in 1 .. Len(acc) - 1 : acc[i].end_time < acc[i + 1].start_time

\* The history of the packet read last: what its OBUs were and what the calls
\* of parse_obu made of them.
\* the OBU header at the head of the input of the call rec records
HeaderOf(rec) == parse_obu_header(rec.input)

\* the bytes of that OBU header: 1, or 2 with an extension
HeaderBytes(rec) == IF HeaderOf(rec).val.extension # <<>> THEN 2 ELSE 1

\* the call returned Ok for an OBU of type obu_type
ParsedObu(rec, obu_type) ==
    rec.st = "ok" /\ HeaderOf(rec).st = "ok" /\ HeaderOf(rec).val.obu_type = obu_type

\* the call returned Ok for an OBU with a size field
ParsedSized(rec) ==
    rec.st = "ok" /\ HeaderOf(rec).st = "ok" /\ HeaderOf(rec).val.has_size_field

\* the call returned Ok for an OBU without a size field
ParsedSizeless(rec) ==
    rec.st = "ok" /\ HeaderOf(rec).st = "ok" /\ ~HeaderOf(rec).val.has_size_field

\* the bytes of the input the call stepped over: the OBU as it was read
ObuBytes(rec) == SliceTo(rec.input, Len(rec.input) - Len(rec.rest))

\* the bytes the call appended to packet_out: the OBU as it is written
Emitted(rec) == SliceFrom(rec.after.packet_out, Len(rec.before.packet_out))

\* the size field of the OBU as it was read
SizeFieldRead(rec) == leb128(SliceFrom(rec.input, HeaderBytes(rec)))

\* the size field of the OBU as it is written
SizeFieldWritten(rec) == leb128(SliceFrom(Emitted(rec), HeaderBytes(rec)))

\* bytes with bit k set to bit, the bits counted from the most significant
\* bit of the first byte
WithBit(bytes, k, bit) ==
    LET mask == Pow2(7 - (k % 8))
        old == (bytes[k \div 8 + 1] \div mask) % 2
    IN [bytes EXCEPT ![k \div 8 + 1] = @ - old * mask + (IF bit THEN mask ELSE 0)]

\* the bytes of the OBU before its payload: its header and its size field
PayloadStart(rec) == HeaderBytes(rec) + SizeFieldRead(rec).bytes_read

\* where film_grain_params_present stands in the sequence header OBU of rec,
\* in bits from the start of the OBU
FilmGrainBit(rec) ==
    PayloadStart(rec) * 8
        + parse_sequence_header(FALSE, FALSE, <<>>,
                                SliceFrom(rec.input, PayloadStart(rec))).flag_pos

\* C6: in a rewrite the bytes written for a sequence header OBU are the bytes
\* read for it, as many and the same in every bit but film_grain_params_present,
\* which is 1 with a grain table to apply and 0 without
C6_SequenceRewrite ==
    WRITE => \A i \in DOMAIN obus :
                 ParsedObu(obus[i], SequenceHeader) =>
                     Emitted(obus[i]) = WithBit(ObuBytes(obus[i]), FilmGrainBit(obus[i]),
                                                incoming_grain_header)

\* a rewrite has written a sequence header OBU longer than it read it
C6_LongerSequenceHeader ==
    WRITE /\ \E i \in DOMAIN obus :
                 /\ ParsedObu(obus[i], SequenceHeader)
                 /\ Len(Emitted(obus[i])) > Len(ObuBytes(obus[i]))

\* C7: in a rewrite the size field written for an OBU with a size field
\* decodes to the number of bytes written from the end of that field to the end
\* of the OBU, and what is written before the field is as it was
C7_SizeFieldWritten ==
    WRITE => \A i \in DOMAIN obus :
                 ParsedSized(obus[i]) =>
                     /\ SizeFieldWritten(obus[i]).ok
                     /\ SizeFieldWritten(obus[i]).value =
                            Len(Emitted(obus[i])) - HeaderBytes(obus[i])
                                - SizeFieldWritten(obus[i]).bytes_read
                     /\ SliceTo(obus[i].after.packet_out,
                                Len(obus[i].before.packet_out) + HeaderBytes(obus[i]))
                            = obus[i].before.packet_out
                                  \o SliceTo(obus[i].input, HeaderBytes(obus[i]))

\* a rewrite has written a size field that says more bytes than follow it
C7_SizeTooLarge ==
    WRITE /\ \E i \in DOMAIN obus :
                 /\ ParsedSized(obus[i])
                 /\ SizeFieldWritten(obus[i]).ok
                 /\ SizeFieldWritten(obus[i]).value >
                        Len(Emitted(obus[i])) - HeaderBytes(obus[i])
                            - SizeFieldWritten(obus[i]).bytes_read

\* C8: a call of parse_obu that returns Ok for an OBU with a size field has
\* stepped over its header, its size field and as many bytes of payload as the
\* size field says, whatever the type of the OBU: the input it returns starts
\* at the next OBU
C8_Framing ==
    \A i \in DOMAIN obus :
        ParsedSized(obus[i]) =>
            /\ HeaderBytes(obus[i]) + SizeFieldRead(obus[i]).bytes_read
                   + SizeFieldRead(obus[i]).value <= Len(obus[i].input)
            /\ obus[i].rest =
                   SliceFrom(obus[i].input,
                             HeaderBytes(obus[i]) + SizeFieldRead(obus[i]).bytes_read
                                 + SizeFieldRead(obus[i]).value)

\* a packet of a temporal delimiter, a sequence header whose parser leaves a
\* byte of the payload unread and a frame has been parsed, each with a size
\* field
C8_Witness ==
    /\ Len(obus) = 3
    /\ \A i \in DOMAIN obus : ParsedSized(obus[i])
    /\ ParsedObu(obus[1], TemporalDelimiter)
    /\ ParsedObu(obus[2], SequenceHeader)
    /\ ParsedObu(obus[3], Frame)
    /\ obus[2].input = SeqOrderHint \o FrameKeyOrderHint
    /\ obus[3].rest = <<>>

\* C9: for an OBU without a size field the parser takes as the size of the
\* payload what is left of the packet less the bytes of the OBU's header,
\* whichever OBUs came before
C9_SizelessPayload ==
    \A i \in DOMAIN obus :
        ParsedSizeless(obus[i]) =>
            obus[i].after.size = Len(obus[i].input) - HeaderBytes(obus[i])

\* an OBU without a size field has been parsed behind another OBU with a
\* payload size that is not what is left of the packet
C9_WrongSize ==
    \E i \in DOMAIN obus :
        /\ i > 1
        /\ ParsedSizeless(obus[i])
        /\ obus[i].after.size < Len(obus[i].input) - HeaderBytes(obus[i])

\* the OBU of rec is in the operating point the parser has chosen, so that
\* parse_obu does not step over it unparsed
InOperatingPoint(rec) ==
    \/ HeaderOf(rec).val.extension = <<>>
    \/ in_operating_point(rec.before.sequence_header[1].cur_operating_point_idc,
                          HeaderOf(rec).val)

\* the call parsed the header of a shown key frame: a Frame or FrameHeader OBU
\* that is the first of its frame, under a sequence header that is not that of
\* a reduced still picture, with show_existing_frame = 0, frame_type = Key
\* and show_frame = 1
ParsedKeyShow(rec) ==
    /\ ParsedObu(rec, Frame) \/ ParsedObu(rec, FrameHeader)
    /\ ~rec.before.seen_frame_header
    /\ rec.before.sequence_header # <<>>
    /\ ~rec.before.sequence_header[1].reduced_still_picture_header
    /\ InOperatingPoint(rec)
    /\ Len(rec.input) > PayloadStart(rec)
    /\ rec.input[PayloadStart(rec) + 1] \div 16 = 1

\* C10, as the parser has it: once the header of a shown key frame is parsed,
\* every one of the 8 reference slots is valid, the header's refresh of all
\* slots coming after the reset
C10_KeyShowRefsValid ==
    \A i \in DOMAIN obus :
        ParsedKeyShow(obus[i]) =>
            \A slot \in 1 .. NUM_REF_FRAMES : obus[i].after.big_ref_valid[slot]

\* C10: once the header of a shown key frame is parsed, none of the 8
\* reference slots is valid
C10_KeyShowRefsInvalid ==
    \A i \in DOMAIN obus :
        ParsedKeyShow(obus[i]) =>
            \A slot \in 1 .. NUM_REF_FRAMES : ~obus[i].after.big_ref_valid[slot]

\* the header of a shown key frame has been parsed by a parser none of whose
\* reference slots was valid, and all of them are valid behind it
C10_Witness ==
    \E i \in DOMAIN obus :
        /\ ParsedKeyShow(obus[i])
        /\ \A slot \in 1 .. NUM_REF_FRAMES : ~obus[i].before.big_ref_valid[slot]
        /\ \A slot \in 1 .. NUM_REF_FRAMES : obus[i].after.big_ref_valid[slot]

\* uncompressed_header as the call of parse_obu that rec records ran it
HeaderRun(rec) ==
    uncompressed_header([rec.before EXCEPT !.seen_frame_header = TRUE],
                        SliceFrom(rec.input, PayloadStart(rec)), NewReader,
                        HeaderOf(rec).val)

\* the call parsed a frame header to its end: a Frame or FrameHeader OBU that
\* is the first of its frame and does not show an existing frame
ParsedFrameHeader(rec) ==
    /\ ParsedObu(rec, Frame) \/ ParsedObu(rec, FrameHeader)
    /\ ~rec.before.seen_frame_header
    /\ rec.before.sequence_header # <<>>
    /\ InOperatingPoint(rec)
    /\ HeaderRun(rec).fields # <<>>

\* what that header read
FieldsOf(rec) == HeaderRun(rec).fields[1]

\* bit slot - 1 of the refresh_frame_flags f.refresh_frame_flags is set
Refreshed(f, slot) == (f.refresh_frame_flags \div Pow2(slot - 1)) % 2 = 1

\* the header of rec, which read f, went through the loop that reads a
\* ref_order_hint per slot
ReadsRefOrderHints(rec, f) ==
    /\ ~is_intra(f.frame_type) \/ f.refresh_frame_flags # REFRESH_ALL_FRAMES
    /\ f.error_resilient_mode
    /\ enable_order_hint(rec.before.sequence_header[1])

\* behind the header of rec, which read f, the slots refreshed are valid and
\* have its order_hint, and the others have the saved order hint kept
SlotsBehind(rec, f, kept) ==
    \A slot \in 1 .. NUM_REF_FRAMES :
        IF Refreshed(f, slot)
        THEN /\ rec.after.big_ref_order_hint[slot] = f.order_hint
             /\ rec.after.big_ref_valid[slot]
        ELSE rec.after.big_ref_order_hint[slot] = kept[slot]

SharedState(self) ==
    [seen_frame_header |-> self.seen_frame_header,
     big_ref_order_hint |-> self.big_ref_order_hint,
     big_ref_valid |-> self.big_ref_valid,
     ref_frame_idx |-> self.ref_frame_idx,
     sequence_header |-> self.sequence_header,
     previous_frame_header |-> self.previous_frame_header]

\* C12: a call of parse_obu that returns an error leaves seen_frame_header,
\* the saved reference order hints and validity flags, ref_frame_idx, the
\* sequence header and the previous frame header as they were before the call
C12_AtomicFailure ==
    \A i \in DOMAIN obus :
        obus[i].st = "err" => SharedState(obus[i].after) = SharedState(obus[i].before)

\* a call of parse_obu has returned an error from inside a frame header and
\* has left seen_frame_header set
C12_LatchLeftSet ==
    \E i \in DOMAIN obus :
        /\ obus[i].st = "err"
        /\ HeaderOf(obus[i]).st = "ok" /\ HeaderOf(obus[i]).val.obu_type = Frame
        /\ ~obus[i].before.seen_frame_header
        /\ obus[i].after.seen_frame_header

\* the call was given a Frame or FrameHeader OBU, the first of its frame, by
\* a parser that has no sequence header
FrameWithoutSequenceHeader(rec) ==
    /\ HeaderOf(rec).st = "ok"
    /\ HeaderOf(rec).val.obu_type \in {Frame, FrameHeader}
    /\ rec.before.sequence_header = <<>>
    /\ ~rec.before.seen_frame_header

\* C13: a Frame or FrameHeader OBU that arrives before any sequence header
\* makes parse_obu return an error to its caller; the program is not
\* terminated abnormally
C13_SequenceHeaderMissing ==
    \A i \in DOMAIN obus : FrameWithoutSequenceHeader(obus[i]) => obus[i].st = "err"

\* a Frame or FrameHeader OBU has arrived before any sequence header, and
\* parse_obu has panicked
C13_Panicked ==
    \E i \in DOMAIN obus : FrameWithoutSequenceHeader(obus[i]) /\ obus[i].st = "panic"

\* the fold has been given 30 equal UpdateGrain headers at 24000/1001 frames
\* per second
ThirtyFramesFolded ==
    /\ frame_rate = [num |-> 24000, den |-> 1001]
    /\ Len(folds) = 30
    /\ \A i \in DOMAIN folds : folds[i].elem.kind = "UpdateGrain" /\ folds[i].elem = folds[1].elem

\* C14: 30 frames of the same UpdateGrain parameters at 24000/1001 frames per
\* second make exactly one segment, from 0 to 12513000
C14_ThirtyFrames ==
    ThirtyFramesFolded =>
        acc = <<[start_time |-> 0, end_time |-> 12513000,
                 grain_params |-> folds[1].elem.params]>>

\* those 30 frames have made one segment from 0 to 20000000
C14_TwoSeconds ==
    /\ ThirtyFramesFolded
    /\ acc = <<[start_time |-> 0, end_time |-> 2 * TIMESTAMP_BASE_UNIT,
                grain_params |-> folds[1].elem.params]>>

\* call i of the fold was given a Disable header while the last segment ran
\* up to the start of its packet
DisabledActive(i) ==
    /\ folds[i].elem = Disable
    /\ folds[i].before # <<>>
    /\ folds[i].before[Len(folds[i].before)].end_time = folds[i].packet_start

\* no call after call i has changed the end of the segment that was the last
\* one at call i
ClosedAt(i) ==
    \A j \in DOMAIN folds :
        j > i => folds[j].after[Len(folds[i].before)].end_time
                     = folds[i].before[Len(folds[i].before)].end_time

\* the fold has been given 10 equal UpdateGrain headers and then 10 Disable
TenOnTenOff ==
    /\ Len(folds) = 20
    /\ \A i \in 1 .. 10 : folds[i].elem.kind = "UpdateGrain" /\ folds[i].elem = folds[1].elem
    /\ \A i \in 11 .. 20 : folds[i].elem = Disable

\* C17: a Disable header closes the segment that is active: no later header
\* moves its end; 10 UpdateGrain headers and then 10 Disable headers leave one
\* segment, which ends where the 10th packet ends; and an UpdateGrain header
\* that follows a Disable header starts a new segment even with the
\* parameters of the segment before
C17_DisableCloses ==
    /\ \A i \in DOMAIN folds : DisabledActive(i) => ClosedAt(i)
    /\ TenOnTenOff => /\ Len(acc) = 1
                      /\ acc[1].end_time = folds[10].packet_end
    /\ \A i \in 2 .. Len(folds) :
           (folds[i].elem.kind = "UpdateGrain" /\ folds[i - 1].elem = Disable)
               => /\ Len(folds[i].after) = Len(folds[i].before) + 1
                  /\ folds[i].after[Len(folds[i].after)].start_time = folds[i].packet_start

\* a Disable header has been folded while a segment was active, and a later
\* header has moved the end of that segment
C17_ReopenedSegment ==
    \E i \in DOMAIN folds : DisabledActive(i) /\ ~ClosedAt(i)

\* p and q are equal in every field other than grain_seed
EqualButSeed(p, q) == [p EXCEPT !.grain_seed = 0] = [q EXCEPT !.grain_seed = 0]

\* call i of the fold was given an UpdateGrain header while the last segment
\* ran up to the start of its packet with the parameters of the header, the
\* grain_seed apart
Continues(i) ==
    /\ folds[i].before # <<>>
    /\ folds[i].before[Len(folds[i].before)].end_time = folds[i].packet_start
    /\ EqualButSeed(folds[i].before[Len(folds[i].before)].grain_params,
                    folds[i].elem.params)

\* C18: an UpdateGrain header moves the end of the last segment to the end of
\* its packet when that segment ends where the packet starts and has the
\* header's parameters in every field other than grain_seed; otherwise it
\* appends a segment of its packet's start and end and its parameters
C18_UpdateGrain ==
    \A i \in DOMAIN folds :
        folds[i].elem.kind = "UpdateGrain" =>
            folds[i].after
                = IF Continues(i)
                  THEN [folds[i].before EXCEPT
                           ![Len(folds[i].before)].end_time = folds[i].packet_end]
                  ELSE Append(folds[i].before,
                              [start_time |-> folds[i].packet_start,
                               end_time |-> folds[i].packet_end,
                               grain_params |-> folds[i].elem.params])

\* an UpdateGrain header has extended a segment of another grain_seed to a
\* later end, and another one has appended a segment behind a segment that
\* ends where its packet starts
C18_Witness ==
    /\ \E i \in DOMAIN folds :
           /\ folds[i].elem.kind = "UpdateGrain" /\ Continues(i)
           /\ folds[i].before[Len(folds[i].before)].grain_params.grain_seed
                  # folds[i].elem.params.grain_seed
           /\ folds[i].after[Len(folds[i].after)].end_time
                  > folds[i].before[Len(folds[i].before)].end_time
    /\ \E i \in DOMAIN folds :
           /\ folds[i].elem.kind = "UpdateGrain" /\ ~Continues(i)
           /\ folds[i].before # <<>>
           /\ folds[i].before[Len(folds[i].before)].end_time = folds[i].packet_start
           /\ Len(folds[i].after) = Len(folds[i].before) + 1

\* where the first byte without continuation bit stands among the first 8
\* bytes, or 0 when there is none
Terminator(bytes) ==
    IF \E k \in 1 .. Min(8, Len(bytes)) : bytes[k] < 128
    THEN CHOOSE k \in 1 .. Min(8, Len(bytes)) :
             bytes[k] < 128 /\ \A j \in 1 .. k - 1 : bytes[j] >= 128
    ELSE 0

\* the low 7 bits of the first n bytes, put together with the first byte as
\* the least significant
RECURSIVE LittleEndian(_, _)
LittleEndian(bytes, n) ==
    IF n = 0 THEN 0
    ELSE LittleEndian(bytes, n - 1)
             + (IF bytes[n] % 128 = 0 THEN 0 ELSE (bytes[n] % 128) * Pow2(7 * (n - 1)))

\* C15: leb128 fails when none of the first 8 bytes has its continuation bit
\* clear; when one has, it succeeds with the low 7 bits of the bytes up to
\* the first such byte, put together little-endian, as its value
C15_LebRead ==
    leb_phase = "read" =>
        IF Terminator(encoded) = 0 THEN ~result.ok
        ELSE /\ result.ok
             /\ result.value = LittleEndian(encoded, Terminator(encoded))
             /\ result.bytes_read = Terminator(encoded)

\* leb128 has returned Ok for 8 bytes that all have the continuation bit set
C15_NoTerminatorOk ==
    leb_phase = "read" /\ Len(encoded) >= 8 /\ Terminator(encoded) = 0 /\ result.ok

\* the call read a frame header: it was given a Frame or FrameHeader OBU, the
\* first of its frame, under a sequence header, and did not panic
ReadFrameHeader(rec) ==
    /\ HeaderOf(rec).st = "ok"
    /\ HeaderOf(rec).val.obu_type \in {Frame, FrameHeader}
    /\ SizeFieldRead(rec).ok
    /\ ~rec.before.seen_frame_header
    /\ rec.before.sequence_header # <<>>
    /\ InOperatingPoint(rec)
    /\ rec.st # "panic"

\* what the latch has to be behind the call rec, by the event the call is:
\* set behind the header of a new frame in a FrameHeader OBU; clear behind a
\* temporal delimiter, behind a header that shows an existing frame, behind a
\* frame header that failed, and behind a Frame OBU, whose tile group is the
\* last of its frame for the one-tile frames of the model; as before
\* otherwise
LatchBehind(rec) ==
    IF ParsedObu(rec, TemporalDelimiter) THEN FALSE
    ELSE IF ReadFrameHeader(rec)
    THEN /\ HeaderRun(rec).r.st = "ok"
         /\ HeaderOf(rec).val.obu_type = FrameHeader
         /\ HeaderRun(rec).fields # <<>>
    ELSE rec.before.seen_frame_header

\* C16: between the OBUs seen_frame_header is set exactly when the last event
\* that bears on it was a frame header parsed for a frame that is not an
\* existing one shown again; it is clear behind the last tile group of a
\* frame, a temporal delimiter, a header that shows an existing frame, and a
\* frame header whose parse failed
C16_Latch ==
    \A i \in DOMAIN obus :
        obus[i].st # "panic" => obus[i].after.seen_frame_header = LatchBehind(obus[i])

\* the parse of a frame header has failed and has left seen_frame_header set
C16_SetBehindFailure ==
    \E i \in DOMAIN obus :
        /\ ReadFrameHeader(obus[i])
        /\ HeaderRun(obus[i]).r.st = "err" /\ obus[i].st = "err"
        /\ obus[i].after.seen_frame_header

\* the call was given a TileGroup OBU that lies within its packet whole
TileGroupGiven(rec) ==
    /\ HeaderOf(rec).st = "ok"
    /\ HeaderOf(rec).val.obu_type = TileGroup
    /\ HeaderOf(rec).val.has_size_field
    /\ SizeFieldRead(rec).ok
    /\ PayloadStart(rec) + SizeFieldRead(rec).value <= Len(rec.input)

\* C19: a TileGroup OBU of its own is handled: the call returns Ok with what
\* follows the OBU, a rewrite writes the OBU as it was read, and the program
\* is not terminated abnormally
C19_TileGroupHandled ==
    \A i \in DOMAIN obus :
        TileGroupGiven(obus[i]) =>
            /\ obus[i].st = "ok"
            /\ obus[i].rest = SliceFrom(obus[i].input,
                                        PayloadStart(obus[i]) + SizeFieldRead(obus[i]).value)
            /\ WRITE => Emitted(obus[i]) = ObuBytes(obus[i])

\* a TileGroup OBU has followed the FrameHeader OBU of its frame, and the call
\* given it has panicked
C19_Panicked ==
    \E i \in DOMAIN obus :
        /\ TileGroupGiven(obus[i])
        /\ obus[i].before.seen_frame_header
        /\ obus[i].st = "panic"

\* the types of OBU that parse_obu has no parser for
PassedThroughTypes == {Metadata, RedundantFrameHeader, TileList, Padding} \cup {0} \cup 9 .. 14

\* the call returned Ok for an OBU that is not parsed: one of those types, or
\* one outside the operating point
NotParsed(rec) ==
    /\ rec.st = "ok" /\ HeaderOf(rec).st = "ok"
    /\ \/ HeaderOf(rec).val.obu_type \in PassedThroughTypes
       \/ /\ HeaderOf(rec).val.obu_type \notin {SequenceHeader, TemporalDelimiter}
          /\ rec.before.sequence_header # <<>>
          /\ rec.before.sequence_header[1].cur_operating_point_idc # 0
          /\ ~InOperatingPoint(rec)

\* the OBU at the head of the input of the call: its header, its size field
\* and the payload of that size, or all of the input when it has no size
\* field
WholeObu(rec) ==
    IF HeaderOf(rec).val.has_size_field
    THEN SliceTo(rec.input, PayloadStart(rec) + SizeFieldRead(rec).value)
    ELSE rec.input

\* the call left alone what the parser knows of the stream
StateKept(rec) ==
    /\ SharedState(rec.after) = SharedState(rec.before)
    /\ rec.after.ref_order_hint = rec.before.ref_order_hint
    /\ rec.after.big_order_hints = rec.before.big_order_hints

\* C20: a call for an OBU that is not parsed returns no OBU, leaves
\* seen_frame_header, the sequence header, the previous frame header and the
\* reference state as they were, and in a rewrite writes the OBU as it was
\* read: header, size field and payload
C20_PassedThrough ==
    \A i \in DOMAIN obus :
        NotParsed(obus[i]) =>
            /\ obus[i].obu = <<>>
            /\ StateKept(obus[i])
            /\ WRITE => Emitted(obus[i]) = WholeObu(obus[i])

\* a rewrite has written less than the whole of an OBU without size field
C20_PaddingCut ==
    \E i \in DOMAIN obus :
        /\ WRITE /\ NotParsed(obus[i])
        /\ ~HeaderOf(obus[i]).val.has_size_field
        /\ Len(Emitted(obus[i])) < Len(WholeObu(obus[i]))

(***************************************************************************)
(* The decision tree of film_grain_params.                                 *)
(***************************************************************************)
\* the call of film_grain_params has returned
GrainReturned == call.fn = "film_grain_params" /\ outcome # <<>>

\* the frame of the call is neither shown nor showable
GrainHidden == ~call.show_frame /\ ~call.showable_frame

\* the call returned Ok with a header of this kind
GrainKind(kind) == outcome[1].st = "ok" /\ outcome[1].val.kind = kind

\* apply_grain, the first bit of the element
ApplyGrainBit == BitAt(call.bytes, 0)

\* C21: film_grain_params returns Disable without consuming a bit when
\* film_grain_params_present is 0 or the frame is neither shown nor showable,
\* Disable after exactly one bit when apply_grain is 0, CopyRefFrame only in
\* an inter frame whose update_grain is 0 and then after the 3-bit reference
\* index, and UpdateGrain otherwise; update_grain is never read for a frame
\* that is not an inter frame
C21_DecisionTree ==
    GrainReturned =>
        /\ (~call.film_grain_params_present \/ GrainHidden)
               => GrainKind("Disable") /\ outcome[1].pos = 0
        /\ (call.film_grain_params_present /\ ~GrainHidden /\ ApplyGrainBit = 0)
               => GrainKind("Disable") /\ outcome[1].pos = 1
        /\ GrainKind("CopyRefFrame")
               => call.frame_type = Inter /\ call.update_grain = 0 /\ outcome[1].pos = 21
        /\ (call.film_grain_params_present /\ ~GrainHidden /\ ApplyGrainBit = 1
            /\ ~(call.frame_type = Inter /\ call.update_grain = 0)
            /\ outcome[1].st = "ok")
               => GrainKind("UpdateGrain")
        /\ (call.frame_type # Inter /\ GrainKind("UpdateGrain"))
               => outcome[1].pos = call.nbits

\* a frame that is neither shown nor showable had its film grain element read
C21_HiddenFrameRead ==
    /\ GrainReturned /\ call.film_grain_params_present /\ GrainHidden
    /\ GrainKind("UpdateGrain") /\ outcome[1].pos = call.nbits

(***************************************************************************)
(* scaling_shift.                                                          *)
(***************************************************************************)
\* C22: for every UpdateGrain header film_grain_params decodes, scaling_shift
\* is the 2-bit grain_scaling_minus_8 of the bitstream plus 8, a value from
\* 8 to 11
C22_ScalingShift ==
    (GrainReturned /\ GrainKind("UpdateGrain"))
        => /\ outcome[1].val.params.scaling_shift = call.grain_scaling_minus_8 + 8
           /\ outcome[1].val.params.scaling_shift \in 8 .. 11

\* an UpdateGrain header decoded from grain_scaling_minus_8 = 3 has
\* scaling_shift = 8
C22_ShiftDropped ==
    /\ GrainReturned /\ GrainKind("UpdateGrain")
    /\ call.grain_scaling_minus_8 = 3
    /\ outcome[1].val.params.scaling_shift = 8

(***************************************************************************)
(* The scaling point lists.                                                *)
(***************************************************************************)
\* the element of the call has the chroma point counts in it
ChromaCounted ==
    ~call.monochrome /\ call.chroma_scaling_from_luma = 0 /\ call.num_y_points > 0

\* the call read an update with more points than a list holds
TooManyPoints ==
    /\ call.film_grain_params_present /\ ApplyGrainBit = 1
    /\ ~(call.frame_type = Inter /\ call.update_grain = 0)
    /\ \/ call.num_y_points > NUM_Y_POINTS
       \/ ChromaCounted /\ call.num_y_points <= NUM_Y_POINTS
          /\ (call.num_cb_points > NUM_UV_POINTS \/ call.num_cr_points > NUM_UV_POINTS)

\* C23: film_grain_params returns a parse error or a header with at most 14
\* luma scaling points and at most 10 Cb and 10 Cr scaling points; a bitstream
\* with num_y_points = 15 or more than 10 chroma points gives a parse error,
\* never an abnormal termination
C23_PointsBounded ==
    GrainReturned =>
        /\ outcome[1].st \in {"ok", "error"}
        /\ GrainKind("UpdateGrain")
               => /\ Len(outcome[1].val.params.scaling_points_y) <= NUM_Y_POINTS
                  /\ Len(outcome[1].val.params.scaling_points_cb) <= NUM_UV_POINTS
                  /\ Len(outcome[1].val.params.scaling_points_cr) <= NUM_UV_POINTS
        /\ TooManyPoints => outcome[1].st = "error"

\* the call read num_y_points = 15 and panicked
C23_Panicked ==
    /\ GrainReturned /\ TooManyPoints /\ call.num_y_points = NUM_Y_POINTS + 1
    /\ outcome[1].st = "panic"

(***************************************************************************)
(* Uniform tile spacing.                                                   *)
(***************************************************************************)
\* the call of tile_info returned Ok for a frame with uniform tile spacing
UniformTiles ==
    /\ call.fn = "tile_info" /\ outcome # <<>> /\ outcome[1].st = "ok"
    /\ BitAt(call.bytes, 0) = 1

\* the width or height of the frame in superblocks
SbCount(mi) == IF call.use_128x128_superblock THEN CeilDiv(mi, 32) ELSE CeilDiv(mi, 16)

\* the number of tiles the specification derives from the exponent: tiles of
\* ceil(sb / 2^log2) superblocks
UniformTileCount(sb, log2) == CeilDiv(sb, CeilDiv(sb, Pow2(log2)))

\* C24: with uniform tile spacing tile_cols is ceil(sb_cols / tile_width_sb)
\* for tile_width_sb = ceil(sb_cols / 2^tile_cols_log2), tile_rows likewise,
\* so that tile_cols is at most 2^tile_cols_log2 and tile_rows at most
\* 2^tile_rows_log2
C24_UniformTiles ==
    UniformTiles =>
        /\ outcome[1].val.tile_cols
               = UniformTileCount(SbCount(call.mi_cols), outcome[1].val.tile_cols_log2)
        /\ outcome[1].val.tile_rows
               = UniformTileCount(SbCount(call.mi_rows), outcome[1].val.tile_rows_log2)
        /\ outcome[1].val.tile_cols <= Pow2(outcome[1].val.tile_cols_log2)
        /\ outcome[1].val.tile_rows <= Pow2(outcome[1].val.tile_rows_log2)

\* a frame 3 superblocks wide split with tile_cols_log2 = 1 has tile_cols = 3
C24_MoreTilesThanLog2 ==
    /\ UniformTiles /\ SbCount(call.mi_cols) = 3
    /\ outcome[1].val.tile_cols_log2 = 1 /\ outcome[1].val.tile_cols = 3

(***************************************************************************)
(* all_lossless.                                                           *)
(***************************************************************************)
\* the width of the frame before superres scales it down: the maximum of the
\* sequence header, for a header with frame_size_override_flag = 0
UpscaledWidth(rec) == rec.before.sequence_header[1].max_frame_width_minus_1 + 1

\* f is the header of a frame superres has scaled down
ScaledDown(rec, f) == ~f.frame_size_override_flag /\ f.frame_width < UpscaledWidth(rec)

\* C25: all_lossless is true exactly when coded_lossless is true and the
\* width of the frame behind superres equals its upscaled width before it, so
\* a frame that superres scales down has all_lossless false (stated for the
\* headers with frame_size_override_flag = 0)
C25_AllLossless ==
    \A i \in DOMAIN obus :
        ParsedFrameHeader(obus[i]) =>
            LET f == FieldsOf(obus[i])
            IN ~f.frame_size_override_flag =>
                   (f.all_lossless <=>
                        f.coded_lossless /\ f.frame_width = UpscaledWidth(obus[i]))

\* a header that superres scaled down was parsed with all_lossless true
C25_LosslessScaledDown ==
    \E i \in DOMAIN obus :
        /\ ParsedFrameHeader(obus[i])
        /\ \E f \in {FieldsOf(obus[i])} : ScaledDown(obus[i], f) /\ f.all_lossless

(***************************************************************************)
(* skip_mode_present.                                                      *)
(***************************************************************************)
\* the distance from order hint bb to order hint a, in -2^(bits-1) ..
\* 2^(bits-1) - 1: the difference modulo 2^bits, taken as a signed number
RelativeDist(a, bb) ==
    IF ((a - bb) % Pow2(call.order_hint_bits)) >= Pow2(call.order_hint_bits - 1)
    THEN ((a - bb) % Pow2(call.order_hint_bits)) - Pow2(call.order_hint_bits)
    ELSE (a - bb) % Pow2(call.order_hint_bits)

\* the order hints saved for the 7 references of the frame
RefHints == { call.ref_order_hint[call.ref_frame_idx[i] + 1] : i \in 1 .. REFS_PER_FRAME }

\* those of the references before the frame and of those behind it
ForwardHints == { h \in RefHints : RelativeDist(h, call.order_hint) < 0 }

BackwardHints == { h \in RefHints : RelativeDist(h, call.order_hint) > 0 }

\* a forward reference earlier than the nearest forward reference
SecondForward ==
    \E f \in ForwardHints :
        /\ \A g \in ForwardHints : RelativeDist(g, f) <= 0
        /\ \E g \in RefHints : RelativeDist(g, f) < 0

\* skip mode is allowed for the frame of the call
SkipModeAllowed ==
    /\ ~call.frame_is_intra /\ call.reference_select /\ call.order_hint_bits > 0
    /\ ForwardHints # {}
    /\ BackwardHints # {} \/ SecondForward

\* the call of skip_mode_params has returned
SkipModeReturned == call.fn = "skip_mode_params" /\ outcome # <<>>

\* C26: skip_mode_params reads the skip_mode_present bit exactly when skip
\* mode is allowed, that is for a frame that is not intra, has
\* reference_select set and order hints enabled and has a forward reference
\* together with a backward reference or a second, earlier forward reference;
\* otherwise it consumes no bit
C26_SkipModePresent ==
    SkipModeReturned =>
        /\ outcome[1].st = "ok"
        /\ outcome[1].pos = (IF SkipModeAllowed THEN 1 ELSE 0)
        /\ SkipModeAllowed => outcome[1].val = BitAt(call.bytes, 0)

\* the bit was read for a frame with two forward references and no backward
\* reference
C26_Witness ==
    /\ SkipModeReturned /\ SkipModeAllowed /\ BackwardHints = {}
    /\ outcome[1].pos = 1 /\ outcome[1].val = 1

(***************************************************************************)
(* The reduced still picture header.                                       *)
(***************************************************************************)
\* the call was given a sequence header OBU with still_picture = 1 and
\* reduced_still_picture_header = 1, bits 3 and 4 of its payload
StillPictureHeader(rec) ==
    /\ HeaderOf(rec).st = "ok"
    /\ HeaderOf(rec).val.obu_type = SequenceHeader
    /\ SizeFieldRead(rec).ok
    /\ Len(rec.input) >= PayloadStart(rec) + SizeFieldRead(rec).value
    /\ BitAt(SliceFrom(rec.input, PayloadStart(rec)), 3) = 1
    /\ BitAt(SliceFrom(rec.input, PayloadStart(rec)), 4) = 1

\* the sequence header installed is the minimal one: no timing info, no
\* decoder model, one operating point with idc 0
MinimalSequenceHeader(self) ==
    /\ self.sequence_header # <<>>
    /\ self.sequence_header[1].timing_info = <<>>
    /\ self.sequence_header[1].decoder_model_info = <<>>
    /\ self.sequence_header[1].operating_points_cnt_minus_1 = 0
    /\ self.sequence_header[1].cur_operating_point_idc = 0

\* C27: a well-formed sequence header with reduced_still_picture_header = 1
\* is parsed successfully into the minimal header (no timing info, no decoder
\* model, a single operating point with idc 0) and the run goes on without
\* abnormal termination
C27_StillPictureParsed ==
    \A i \in DOMAIN obus :
        StillPictureHeader(obus[i])
            => obus[i].st = "ok" /\ MinimalSequenceHeader(obus[i].after)

\* the call given such a sequence header has panicked
C27_Panicked ==
    \E i \in DOMAIN obus : StillPictureHeader(obus[i]) /\ obus[i].st = "panic"

(***************************************************************************)
(* The tile group of a frame that is not shown.                            *)
(***************************************************************************)
\* the call was given a Frame OBU whose header parses to its end with
\* show_frame = 0
HiddenFrame(rec) ==
    /\ HeaderOf(rec).st = "ok"
    /\ HeaderOf(rec).val.obu_type = Frame
    /\ ~rec.before.seen_frame_header
    /\ rec.before.sequence_header # <<>>
    /\ InOperatingPoint(rec)
    /\ \E u \in {HeaderRun(rec)} :
           u.r.st = "ok" /\ ~u.r.val.show_existing_frame /\ ~u.r.val.show_frame

\* the header parse_frame_obu hands the tile info of to parse_tile_group_obu
GivenHeader(rec) == ref_frame_header(frame_header_result(HeaderRun(rec)))

\* C28: for a Frame OBU whose header has show_frame = 0 the tile group
\* handler is given the tile_info of that header, not that of an earlier
\* shown frame, and the OBU is processed without abnormal termination also
\* when no shown header came before it
C28_HiddenFrameTiles ==
    \A i \in DOMAIN obus :
        HiddenFrame(obus[i])
            => /\ obus[i].st # "panic"
               /\ GivenHeader(obus[i]).tile_info = HeaderRun(obus[i]).r.val.tile_info
               /\ ~GivenHeader(obus[i]).show_frame

\* a Frame OBU with show_frame = 0 came before any shown header, and
\* parse_obu has panicked
C28_Panicked ==
    \E i \in DOMAIN obus :
        /\ HiddenFrame(obus[i]) /\ obus[i].before.previous_frame_header = <<>>
        /\ obus[i].st = "panic"

\* a Frame OBU with show_frame = 0 came behind a shown header, and its tile
\* group was handled with the header of that shown frame
C28_EarlierHeaderGiven ==
    \E i \in DOMAIN obus :
        /\ HiddenFrame(obus[i]) /\ obus[i].st = "ok"
        /\ GivenHeader(obus[i]) = obus[i].before.previous_frame_header[1]
        /\ GivenHeader(obus[i]).show_frame

(***************************************************************************)
(* A parser that does not write.                                           *)
(***************************************************************************)
\* C29: in a parser with WRITE = false packet_out has length 0 behind every
\* sequence of calls of parse_obu
C29_NothingWritten ==
    ~WRITE =>
        /\ Len(parser.packet_out) = 0
        /\ \A i \in DOMAIN obus : Len(obus[i].after.packet_out) = 0

\* a parser with WRITE = false has parsed a FrameHeader OBU and holds the
\* bytes behind the frame header in packet_out
C29_WrittenWithoutWrite ==
    /\ ~WRITE /\ Len(parser.packet_out) > 0
    /\ \E i \in DOMAIN obus :
           /\ ParsedObu(obus[i], FrameHeader)
           /\ Len(obus[i].before.packet_out) = 0
           /\ Len(obus[i].after.packet_out) > 0

(***************************************************************************)
(* The list of get_grain_headers.                                          *)
(***************************************************************************)
\* the call returned Ok for a Frame or FrameHeader OBU of the operating point
\* that is not a repeated header: seen_frame_header was clear before it
FirstHeaderOfFrame(rec) ==
    /\ ParsedObu(rec, Frame) \/ ParsedObu(rec, FrameHeader)
    /\ ~rec.before.seen_frame_header
    /\ rec.before.sequence_header # <<>>
    /\ InOperatingPoint(rec)

\* that header shows an existing frame: show_existing_frame, its first bit
ShowsExistingFrame(rec) ==
    /\ FirstHeaderOfFrame(rec)
    /\ ~rec.before.sequence_header[1].reduced_still_picture_header
    /\ BitAt(SliceFrom(rec.input, PayloadStart(rec)), 0) = 1

\* the list behind the call rec, as the claim has it: CopyRefFrame for a
\* header that shows an existing frame, the film grain header parsed for a
\* header with show_frame = 1, nothing for a hidden frame, a repeated
\* header and every other OBU
GrainHeadersBehind(hs, rec) ==
    IF ShowsExistingFrame(rec) THEN Append(hs, CopyRefFrame)
    ELSE IF FirstHeaderOfFrame(rec)
    THEN LET u == HeaderRun(rec)
         IN IF u.r.val.show_frame THEN Append(hs, u.r.val.film_grain_params) ELSE hs
    ELSE hs

\* the driver of get_grain_headers stands behind a call of parse_obu that
\* returned Ok, at its `match obu`
AtMatch == ~WRITE /\ status = "running" /\ pc = "match"

====
